---- MODULE Spec2Model ----
(***************************************************************************)
(* Model of the chat backend of bot-v1 (src/app.py).                       *)
(*                                                                         *)
(* Python dicts are records whose DOMAIN is the set of keys present, so    *)
(* "the message has no audio field" is "audio" \notin DOMAIN msg.          *)
(* Python strings that the code concatenates, strips or tests for          *)
(* emptiness are sequences of tokens; concatenation is \o, the empty       *)
(* string is <<>>, and the tokens of WhiteSpace are what strip() removes.  *)
(* The Chinese string literals of the source are written as one ASCII      *)
(* token each, an English rendering of the literal; two literals that      *)
(* differ in the source are different tokens here.                         *)
(* Every outbound HTTP call is one step whose outcome is chosen from the   *)
(* outcomes the remote service can produce.                                *)
(***************************************************************************)
EXTENDS Integers, Sequences, FiniteSets, TLC

VARIABLES
    op,            \* entry point being executed
    cfg,           \* which API keys the service object was constructed with
    \* ---- MultiModalChatBotService.get_response call frame ----
    grpc,          \* position inside get_response
    grMessages,    \* messages argument
    grRequested,   \* model argument as passed by the caller
    grModel,       \* local variable model (after the capability override)
    grSystem,      \* system_prompt argument
    grTools,       \* tools argument reaching the provider method (TRUE: a tools list)
    attempt,       \* loop variable of the SiliconFlow retry loop
    outcomes,      \* outcome of every SiliconFlow attempt of this call, in order
    fallbackCalls, \* number of _get_groq_fallback_response invocations of this call
    dispatched,    \* provider methods entered by this call, in order
    sent,          \* HTTP chat-completion requests issued by this call, in order
    grResult,      \* value returned by get_response
    \* ---- _preprocess_multimedia_messages call frame ----
    ppc,             \* position inside _preprocess_multimedia_messages
    pArg,            \* messages argument: [none |-> TRUE] or [none |-> FALSE, list |-> ...]
    pIdx,            \* index of the message the for loop is at
    processed_msg,   \* local variable processed_msg
    additional_text, \* local variable additional_text (a list of strings)
    has_multimedia,  \* local variable has_multimedia
    calls,           \* transcription / frame-extraction calls made, with their outcomes
    processed_messages, \* local variable processed_messages; the return value at "done"
    \* ---- /api/chat request ----
    cpc,           \* position inside chat()
    req,           \* JSON body of the request
    messages,      \* local variable messages (date terms rewritten in place)
    search_query,  \* local variable search_query
    modelCalls,    \* get_response calls completed for this request, in order
    searches,      \* web searches executed for this request, in order
    stored,        \* rows chat_db.add_message inserted for this request, in order
    saving,        \* add_message calls the handler has still to make, and its return value
    httpResponse,  \* the response of the request
    \* ---- _handle_tool_calls call frame ----
    hpc,           \* position inside _handle_tool_calls
    hArg,          \* arguments: result, messages, model, system_prompt, session_id
    tIdx,          \* index of the tool call the for loop is at
    tool_results,  \* local variable tool_results
    executions,    \* function_executor.execute_function invocations, in order
    hReturn,       \* value returned by _handle_tool_calls
    \* ---- ChatDatabase (SQLite file shared by all clients) ----
    chat_sessions, \* committed table chat_sessions: id -> row
    session_order, \* ids of chat_sessions by updated_at, most recent first
    db_messages,   \* committed table messages, in insertion order
    created,       \* number of create_session calls that inserted a row
    dbpc,          \* per client: position inside add_message
    txn,           \* per client: the uncommitted transaction of add_message
    write_lock,    \* client holding SQLite's write lock, or None
    lastOp         \* the ChatDatabase call that returned last, with its value

grVars == <<grpc, grMessages, grRequested, grModel, grSystem, grTools, attempt,
            outcomes, fallbackCalls, dispatched, sent, grResult>>
preVars == <<ppc, pArg, pIdx, processed_msg, additional_text, has_multimedia, calls,
             processed_messages>>
chatVars == <<cpc, req, messages, search_query, modelCalls, searches, stored, saving,
              httpResponse>>
toolVars == <<hpc, hArg, tIdx, tool_results, executions, hReturn>>
dbVars == <<chat_sessions, session_order, db_messages, created, dbpc, txn, write_lock, lastOp>>
vars == <<op, cfg, grVars, preVars, chatVars, toolVars, dbVars>>

-----------------------------------------------------------------------------
(* Bounds *)
MaxMsgs == 2

(* Program constants *)
max_retries_3 == 2 + 1
max_retries == 2

-----------------------------------------------------------------------------
(* Strings *)
WhiteSpace == {" ", "\n\n"}
strip_empty(t) == \A i \in 1..Len(t) : t[i] \in WhiteSpace

None == "None"

Truthy(m, k) ==
    /\ k \in DOMAIN m
    /\ IF k = "text" THEN m[k] # <<>> ELSE m[k] # ""

GetText(m) == IF "text" \in DOMAIN m THEN m["text"] ELSE <<>>

Pop(m, k) == [f \in DOMAIN m \ {k} |-> m[f]]
Put(m, k, v) == [f \in DOMAIN m \cup {k} |-> IF f = k THEN v ELSE m[f]]

RECURSIVE SeqsUpTo(_, _)
SeqsUpTo(S, n) ==
    IF n = 0 THEN {<<>>}
    ELSE LET shorter == SeqsUpTo(S, n - 1)
         IN  shorter \cup {Append(s, x) : s \in {t \in shorter : Len(t) = n - 1}, x \in S}

-----------------------------------------------------------------------------
(* Model registry *)
DeepSeek == "deepseek-ai/DeepSeek-V2.5"
Qwen     == "Qwen/Qwen2.5-7B-Instruct"
Scout    == "meta-llama/llama-4-scout-17b-16e-instruct"
Maverick == "meta-llama/llama-4-maverick-17b-128e-instruct"
UnknownModelId == "invalid-model-name"

AVAILABLE_MODELS ==
    << [id |-> DeepSeek, provider |-> "siliconflow", supports_image |-> FALSE],
       [id |-> Qwen,     provider |-> "siliconflow", supports_image |-> FALSE],
       [id |-> Scout,    provider |-> "groq",        supports_image |-> TRUE],
       [id |-> Maverick, provider |-> "groq",        supports_image |-> TRUE] >>

NoModelInfo == [id |-> None]

get_model_info_default(model) ==
    IF \E i \in 1..Len(AVAILABLE_MODELS) : AVAILABLE_MODELS[i].id = model
    THEN AVAILABLE_MODELS[CHOOSE i \in 1..Len(AVAILABLE_MODELS) : AVAILABLE_MODELS[i].id = model]
    ELSE AVAILABLE_MODELS[1]

get_model_info(model) ==
    IF \E i \in 1..Len(AVAILABLE_MODELS) : AVAILABLE_MODELS[i].id = model
    THEN AVAILABLE_MODELS[CHOOSE i \in 1..Len(AVAILABLE_MODELS) :
                            /\ AVAILABLE_MODELS[i].id = model
                            /\ \A j \in 1..(i - 1) : AVAILABLE_MODELS[j].id # model]
    ELSE NoModelInfo

has_image_content(msgs) ==
    \E i \in 1..Len(msgs) : Truthy(msgs[i], "image")

has_multimedia_content(msgs) ==
    \E i \in 1..Len(msgs) :
        Truthy(msgs[i], "image") \/ Truthy(msgs[i], "audio") \/ Truthy(msgs[i], "video")

fallback_model_requested == DeepSeek
fallback_model == Scout

SelectModel_NoImageOverride(model, has_image, has_media) ==
    LET model_info == get_model_info(model) IN
    IF has_media /\ ~has_image /\ ~model_info.supports_image THEN Scout
    ELSE model

(* The model get_response ends up calling for a registered requested model. *)
SelectModel(model, has_image, has_media) ==
    LET model_info == get_model_info(model) IN
    IF has_image /\ ~model_info.supports_image THEN Scout
    ELSE IF has_media /\ ~has_image /\ ~model_info.supports_image THEN Scout
    ELSE model

-----------------------------------------------------------------------------
(* Request bodies *)
ImageUnsupportedNote == <<" [note: image detected, but the current model does not support images]">>
DefaultHelpText == <<"please help.">>

SystemMessages(system_prompt) ==
    IF system_prompt # <<>> THEN << [role |-> "system", content |-> system_prompt] >> ELSE <<>>

SiliconflowMessage(msg) ==
    IF msg["role"] = "user"
    THEN LET text_content == GetText(msg) \o
                             (IF Truthy(msg, "image") THEN ImageUnsupportedNote ELSE <<>>)
         IN  [role |-> "user",
              content |-> IF ~strip_empty(text_content) THEN text_content ELSE DefaultHelpText]
    ELSE [role |-> msg["role"], content |-> GetText(msg)]

GroqMessage(msg) ==
    IF msg["role"] = "user"
    THEN LET textPart  == IF Truthy(msg, "text")
                          THEN << [type |-> "text", text |-> msg["text"]] >> ELSE <<>>
             imagePart == IF Truthy(msg, "image")
                          THEN << [type |-> "image_url", url |-> msg["image"]] >> ELSE <<>>
             content   == textPart \o imagePart
         IN  [role |-> "user",
              content |-> IF content # <<>> THEN content
                          ELSE << [type |-> "text", text |-> DefaultHelpText] >>]
    ELSE [role |-> msg["role"], content |-> GetText(msg)]

SiliconflowRequest(msgs, model, system_prompt, tools) ==
    [provider |-> "siliconflow", model |-> model, tools |-> tools,
     messages |-> SystemMessages(system_prompt) \o
                  [i \in 1..Len(msgs) |-> SiliconflowMessage(msgs[i])]]

GroqRequest(msgs, model, system_prompt, tools) ==
    [provider |-> "groq", model |-> model, tools |-> tools,
     messages |-> SystemMessages(system_prompt) \o
                  [i \in 1..Len(msgs) |-> GroqMessage(msgs[i])]]

-----------------------------------------------------------------------------
(* Provider results *)
SEARCH_REQUIRED == "SEARCH_REQUIRED:"
ProviderTexts ==
    {<<"answer">>, <<SEARCH_REQUIRED, " ", "gold price">>, <<SEARCH_REQUIRED, " ">>}
ToolCalls == << [id |-> "call_1", name |-> "web_search", arguments |-> "gold price"] >>

HttpOutcomes == {"ok_text", "ok_tool_calls", "timeout", "connection_error", "other_error"}

(* What one POST to a chat-completions endpoint can do, given the request. *)
PossibleOutcomes(tools) ==
    IF tools THEN HttpOutcomes ELSE HttpOutcomes \ {"ok_tool_calls"}

TextResult(provider, model, text) ==
    [success |-> TRUE, response |-> text, provider |-> provider, model |-> model]

ToolCallResult_WithResponse(provider, model) ==
    [success |-> TRUE, response |-> <<>>,
     message |-> [role |-> "assistant", content |-> <<>>, tool_calls |-> ToolCalls],
     tool_calls |-> ToolCalls, provider |-> provider, model |-> model,
     requires_tool_execution |-> TRUE]

ToolCallResult(provider, model) ==
    [success |-> TRUE,
     message |-> [role |-> "assistant", content |-> <<>>, tool_calls |-> ToolCalls],
     tool_calls |-> ToolCalls, provider |-> provider, model |-> model,
     requires_tool_execution |-> TRUE]

Failure(error) == [success |-> FALSE, error |-> error]

NoResult == [pending |-> TRUE]

-----------------------------------------------------------------------------
(* MultiModalChatBotService.get_response: model lookup, capability         *)
(* override, dispatch on the provider of the selected model.               *)
get_response ==
    /\ grpc = "call"
    /\ LET model_info == get_model_info(grRequested) IN
       IF model_info = NoModelInfo
       THEN /\ grResult' = Failure(<<"unknown model: ", grRequested>>)
            /\ grpc' = "done"
            /\ UNCHANGED <<grModel, dispatched>>
       ELSE LET model == SelectModel(grRequested, has_image_content(grMessages),
                                     has_multimedia_content(grMessages))
                provider == get_model_info(model).provider
            IN  /\ grModel' = model
                /\ dispatched' = Append(dispatched, [provider |-> provider, model |-> model])
                /\ grpc' = IF provider = "groq" THEN "groq" ELSE "siliconflow"
                /\ UNCHANGED grResult
    /\ UNCHANGED <<op, cfg, dbVars, toolVars, grMessages, grRequested, grSystem, grTools, attempt,
                   outcomes, fallbackCalls, sent, preVars, chatVars>>

(* _get_siliconflow_response up to the retry loop: the key check. *)
get_siliconflow_response ==
    /\ grpc = "siliconflow"
    /\ IF ~cfg.siliconflow_api_key
       THEN /\ grResult' = Failure(<<"SiliconFlow API key not configured">>)
            /\ grpc' = "done"
            /\ UNCHANGED attempt
       ELSE /\ attempt' = 0
            /\ grpc' = "siliconflow_attempt"
            /\ UNCHANGED grResult
    /\ UNCHANGED <<op, cfg, dbVars, toolVars, grMessages, grRequested, grModel, grSystem, grTools,
                   outcomes, fallbackCalls, dispatched, sent, preVars, chatVars>>

OnAttemptFailure_TimeoutOnly(att, outcome) ==
    IF outcome = "timeout"
    THEN IF att = max_retries - 1 THEN "fallback" ELSE "retry"
    ELSE IF att = max_retries - 1 THEN "fail" ELSE "retry"

(* What the except clauses of the retry loop do with a failed attempt:     *)
(* "retry", "fallback" (the Groq fallback) or "fail" (return an error).    *)
OnAttemptFailure(att, outcome) ==
    IF outcome \in {"timeout", "connection_error"}
    THEN IF att = max_retries - 1 THEN "fallback" ELSE "retry"
    ELSE IF att = max_retries - 1 THEN "fail" ELSE "retry"

(* One iteration of the retry loop: one POST to SiliconFlow. *)
siliconflow_attempt ==
    /\ grpc = "siliconflow_attempt"
    /\ attempt < max_retries
    /\ \E outcome \in PossibleOutcomes(grTools), text \in ProviderTexts :
        /\ sent' = Append(sent, SiliconflowRequest(grMessages, grModel, grSystem, grTools))
        /\ outcomes' = Append(outcomes, outcome)
        /\ IF outcome = "ok_tool_calls"
           THEN /\ grResult' = ToolCallResult("siliconflow", grModel)
                /\ grpc' = "done"
                /\ UNCHANGED <<attempt, grModel, grTools, fallbackCalls, dispatched>>
           ELSE IF outcome = "ok_text"
           THEN /\ grResult' = TextResult("siliconflow", grModel, text)
                /\ grpc' = "done"
                /\ UNCHANGED <<attempt, grModel, grTools, fallbackCalls, dispatched>>
           ELSE LET todo == OnAttemptFailure(attempt, outcome) IN
                IF todo = "retry"
                THEN \* continue; after the last iteration the loop falls through
                     /\ attempt' = attempt + 1
                     /\ IF attempt + 1 = max_retries
                        THEN /\ grResult' = Failure(<<"SiliconFlow API call failed">>)
                             /\ grpc' = "done"
                        ELSE UNCHANGED <<grpc, grResult>>
                     /\ UNCHANGED <<grModel, grTools, fallbackCalls, dispatched>>
                ELSE IF todo = "fallback"
                THEN \* _get_groq_fallback_response: fixed model, no tools
                     /\ fallbackCalls' = fallbackCalls + 1
                     /\ grModel' = fallback_model
                     /\ grTools' = FALSE
                     /\ dispatched' = Append(dispatched, [provider |-> "groq", model |-> fallback_model])
                     /\ grpc' = "groq"
                     /\ UNCHANGED <<attempt, grResult>>
                ELSE /\ grResult' = Failure(<<"SiliconFlow API error: ", outcome>>)
                     /\ grpc' = "done"
                     /\ UNCHANGED <<attempt, grModel, grTools, fallbackCalls, dispatched>>
    /\ UNCHANGED <<op, cfg, dbVars, toolVars, grMessages, grRequested, grSystem, preVars, chatVars>>

(* _get_groq_response: key check, one POST to Groq, no retry. *)
get_groq_response ==
    /\ grpc = "groq"
    /\ IF ~cfg.groq_api_key
       THEN /\ grResult' = Failure(<<"Groq API key not configured">>)
            /\ UNCHANGED sent
       ELSE \E outcome \in PossibleOutcomes(grTools), text \in ProviderTexts :
            /\ sent' = Append(sent, GroqRequest(grMessages, grModel, grSystem, grTools))
            /\ grResult' = IF outcome = "ok_tool_calls" THEN ToolCallResult("groq", grModel)
                           ELSE IF outcome = "ok_text" THEN TextResult("groq", grModel, text)
                           ELSE Failure(<<"Groq API error: ", outcome>>)
    /\ grpc' = "done"
    /\ UNCHANGED <<op, cfg, dbVars, toolVars, grMessages, grRequested, grModel, grSystem, grTools, attempt,
                   outcomes, fallbackCalls, dispatched, preVars, chatVars>>

-----------------------------------------------------------------------------
(* _preprocess_multimedia_messages *)
EmptyDict == [f \in {} |-> ""]

RECURSIVE Join(_)
Join(list) ==
    IF list = <<>> THEN <<>>
    ELSE IF Len(list) = 1 THEN list[1]
    ELSE list[1] \o <<" ">> \o Join(Tail(list))

Speech == <<"hello there">>
Frame1 == "data:image/jpeg;base64,FRAME1"

VoiceContent(t)        == <<"user voice content: \"">> \o t \o <<"\"">>
AnalyseVoiceNote       == <<"please analyse the user's voice content, tone and emotion.">>
UnclearSpeechNote      == <<"the user provided an audio file but no clear speech was recognised.">>
AllTranscriptionFailedNote == <<"the user provided an audio file; rely on the user's text description of the audio.">>
AudioExceptionNote     == <<"the user provided an audio file; rely on the user's description.">>
VideoAnalysisNotes ==
    << <<"the user provided a video file; full video analysis done:">>,
       <<"video info: summary">>,
       <<"key frame analysis:">>,
       <<"frame line">>,
       <<"motion statistics">>,
       <<"please analyse the video based on the above and the key frame image.">>,
       <<"focus on: timeline, scene changes, motion, story.">> >>
VideoFailedNotes ==
    << <<"the user provided a video file but full video analysis was not possible.">>,
       <<"rely on the user's text description of the video.">>,
       <<"suggest the user describe scene, actions, order, key events.">> >>
VideoExceptionNote     == <<"the user provided a video file; rely on the user's text description.">>
AudioHint      == <<"\n\n", "please help based on my voice content.">>
VideoFrameHint == <<"\n\n", "please analyse the content of this video frame.">>
VideoAskHint   == <<"\n\n", "which aspects of this video do you want to know about?">>

TranscribeOutcomes == {"ok_text", "ok_empty", "fail", "raise"}
ExtractOutcomes    == {"ok_frames", "ok_no_frames", "fail", "raise"}

(* transcribe_audio_with_groq returns a failure at once without a key. *)
GroqTranscribeOutcomes ==
    IF cfg.groq_api_key THEN TranscribeOutcomes ELSE {"fail", "raise"}

(* transcribe_audio (OpenAI Whisper) returns a failure at once without a key. *)
WhisperTranscribeOutcomes ==
    IF cfg.openai_api_key THEN TranscribeOutcomes ELSE {"fail", "raise"}

GroqTranscriptionFailedOrEmpty(outcome) == outcome \in {"fail", "ok_empty"}
(* Lines 1256-1265: the else branch, which calls Whisper, is taken when    *)
(* transcription_result['success'] is false.                               *)
GroqTranscriptionFailed(outcome) == outcome = "fail"

(* Lines 1237-1243: the copy with the basic fields ensured. *)
EnsureFields(msg) ==
    LET withRole == IF "role" \notin DOMAIN msg THEN Put(msg, "role", "user") ELSE msg
    IN  IF "text" \notin DOMAIN withRole THEN Put(withRole, "text", <<>>) ELSE withRole

(* The branch of the loop body that handles attachments is entered for    *)
(* these messages only (line 1245).                                        *)
IsUserMessage(msg) == "role" \in DOMAIN msg /\ msg["role"] = "user"

(* Lines 1338-1354: merge the notes into the text, add the hints. *)
FinishMessage(msg, pm, add, hasmm) ==
    LET merged ==
            IF add # <<>>
            THEN IF GetText(pm) # <<>>
                 THEN Put(pm, "text", GetText(pm) \o <<"\n\n">> \o Join(add))
                 ELSE Put(pm, "text", Join(add))
            ELSE pm
        audioHint == IF Truthy(msg, "audio") THEN AudioHint ELSE <<>>
        videoHint == IF Truthy(msg, "video")
                     THEN IF Truthy(msg, "image") THEN VideoFrameHint ELSE VideoAskHint
                     ELSE <<>>
    IN  IF hasmm /\ strip_empty(GetText(msg))
        THEN Put(merged, "text", merged["text"] \o audioHint \o videoHint)
        ELSE merged

CurrentMsg == pArg.list[pIdx]

AppendAndAdvance_Prepend(pm) ==
    /\ processed_messages' = <<pm>> \o processed_messages
    /\ pIdx' = pIdx + 1
    /\ ppc' = IF pIdx = Len(pArg.list) THEN "done" ELSE "loop"
    /\ processed_msg' = EmptyDict
    /\ additional_text' = <<>>
    /\ has_multimedia' = FALSE

(* processed_messages.append(processed_msg) and the next loop iteration,   *)
(* or the return after the last one.                                       *)
AppendAndAdvance(pm) ==
    /\ processed_messages' = Append(processed_messages, pm)
    /\ pIdx' = pIdx + 1
    /\ ppc' = IF pIdx = Len(pArg.list) THEN "done" ELSE "loop"
    /\ processed_msg' = EmptyDict
    /\ additional_text' = <<>>
    /\ has_multimedia' = FALSE

(* After the audio block: the video block if the message has a video,      *)
(* otherwise the merge.                                                    *)
AfterAudio(pm, add) ==
    IF Truthy(CurrentMsg, "video")
    THEN /\ processed_msg' = pm
         /\ additional_text' = add
         /\ ppc' = "video"
         /\ UNCHANGED <<pIdx, has_multimedia, processed_messages>>
    ELSE AppendAndAdvance(FinishMessage(CurrentMsg, pm, add, TRUE))

preprocess_enter ==
    /\ ppc = "call"
    /\ IF pArg.none \/ pArg.list = <<>>
       THEN ppc' = "done"
       ELSE ppc' = "loop"
    /\ pIdx' = 1
    /\ processed_messages' = <<>>
    /\ UNCHANGED <<op, cfg, dbVars, toolVars, grVars, chatVars, pArg, processed_msg, additional_text,
                   has_multimedia, calls>>

(* Top of the loop body up to the first external call. *)
preprocess_message ==
    /\ ppc = "loop"
    /\ LET msg == CurrentMsg
           pm  == EnsureFields(msg)
       IN  IF IsUserMessage(msg)
           THEN IF Truthy(msg, "audio")
                THEN /\ processed_msg' = pm
                     /\ additional_text' = <<>>
                     /\ has_multimedia' = TRUE
                     /\ ppc' = "audio_groq"
                     /\ UNCHANGED <<pIdx, processed_messages>>
                ELSE IF Truthy(msg, "video")
                THEN /\ processed_msg' = pm
                     /\ additional_text' = <<>>
                     /\ has_multimedia' = TRUE
                     /\ ppc' = "video"
                     /\ UNCHANGED <<pIdx, processed_messages>>
                ELSE AppendAndAdvance(FinishMessage(msg, pm, <<>>, FALSE))
           ELSE AppendAndAdvance(pm)
    /\ UNCHANGED <<op, cfg, dbVars, toolVars, grVars, chatVars, pArg, calls>>

(* Lines 1252-1263 and 1273-1278: the Groq speech-to-text call. *)
preprocess_audio_groq ==
    /\ ppc = "audio_groq"
    /\ \E outcome \in GroqTranscribeOutcomes :
        /\ calls' = Append(calls, [fn |-> "transcribe_audio_with_groq", outcome |-> outcome])
        /\ IF GroqTranscriptionFailed(outcome)
           THEN /\ ppc' = "audio_whisper"
                /\ UNCHANGED <<pIdx, processed_msg, additional_text, has_multimedia,
                               processed_messages>>
           ELSE AfterAudio(Pop(processed_msg, "audio"),
                           additional_text \o
                           (IF outcome = "ok_text" THEN <<VoiceContent(Speech), AnalyseVoiceNote>>
                            ELSE IF outcome = "ok_empty" THEN <<UnclearSpeechNote>>
                            ELSE <<AudioExceptionNote>>))
    /\ UNCHANGED <<op, cfg, dbVars, toolVars, grVars, chatVars, pArg>>

(* Lines 1264-1278: the OpenAI Whisper call made when Groq returned a failure. *)
preprocess_audio_whisper ==
    /\ ppc = "audio_whisper"
    /\ \E outcome \in WhisperTranscribeOutcomes :
        /\ calls' = Append(calls, [fn |-> "transcribe_audio", outcome |-> outcome])
        /\ AfterAudio(Pop(processed_msg, "audio"),
                      additional_text \o
                      (IF outcome = "ok_text" THEN <<VoiceContent(Speech)>>
                       ELSE IF outcome = "ok_empty" THEN <<VoiceContent(<<>>)>>
                       ELSE IF outcome = "fail" THEN <<AllTranscriptionFailedNote>>
                       ELSE <<AudioExceptionNote>>))
    /\ UNCHANGED <<op, cfg, dbVars, toolVars, grVars, chatVars, pArg>>

WithFrame_OnlyWhenNoImage(pm, outcome) ==
    IF outcome = "ok_frames" /\ "image" \notin DOMAIN pm THEN Put(pm, "image", Frame1) ELSE pm

(* Lines 1286-1288: the first extracted frame becomes the image of the     *)
(* message when the extraction succeeded with a non-empty frame list.      *)
WithFrame(pm, outcome) ==
    IF outcome = "ok_frames" THEN Put(pm, "image", Frame1) ELSE pm

(* Lines 1281-1336: frame extraction, then lines 1338-1356. *)
preprocess_video ==
    /\ ppc = "video"
    /\ \E outcome \in ExtractOutcomes :
        /\ calls' = Append(calls, [fn |-> "extract_video_frames", outcome |-> outcome])
        /\ LET withFrame == WithFrame(processed_msg, outcome)
               notes == IF outcome = "ok_frames" THEN VideoAnalysisNotes
                        ELSE IF outcome = "raise" THEN <<VideoExceptionNote>>
                        ELSE VideoFailedNotes
           IN  AppendAndAdvance(FinishMessage(CurrentMsg, Pop(withFrame, "video"),
                                              additional_text \o notes, TRUE))
    /\ UNCHANGED <<op, cfg, dbVars, toolVars, grVars, chatVars, pArg>>

PreIdle ==
    /\ ppc = "idle"
    /\ pArg = [none |-> TRUE, list |-> <<>>]
    /\ pIdx = 1
    /\ processed_msg = EmptyDict
    /\ additional_text = <<>>
    /\ has_multimedia = FALSE
    /\ calls = <<>>
    /\ processed_messages = <<>>

-----------------------------------------------------------------------------
(* Call frames that are not in use *)
GRIdle ==
    /\ grpc = "idle"
    /\ grMessages = <<>>
    /\ grRequested = DeepSeek
    /\ grModel = DeepSeek
    /\ grSystem = <<>>
    /\ grTools = FALSE
    /\ attempt = 0
    /\ outcomes = <<>>
    /\ fallbackCalls = 0
    /\ dispatched = <<>>
    /\ sent = <<>>
    /\ grResult = NoResult

NoResponse == [pending |-> TRUE]

(* No _save_chat_messages under way. *)
NoSave == [active |-> FALSE]

ChatIdle ==
    /\ cpc = "idle"
    /\ req = EmptyDict
    /\ messages = <<>>
    /\ search_query = <<>>
    /\ modelCalls = <<>>
    /\ searches = <<>>
    /\ stored = <<>>
    /\ saving = NoSave
    /\ httpResponse = NoResponse

(* Two clients of the database file, each with its own connection. *)
Procs == {"p1", "p2"}
NoTxn == [none |-> TRUE]
NoOp == [name |-> "none", id |-> None, ok |-> FALSE, raised |-> None]

DefaultTitle == "chat <now>"

SessionRow(title, model) ==
    [title |-> IF title = None THEN DefaultTitle ELSE title, model |-> model,
     message_count |-> 0, is_archived |-> FALSE]

(* SET updated_at = now: the session becomes the most recently updated. *)
Touch(order, id) == <<id>> \o SelectSeq(order, LAMBDA x : x # id)

Incremented_Unchanged(message_count) == message_count

(* message_count + 1 *)
Incremented(message_count) == message_count + 1

Returned(name, id, ok) ==
    lastOp' = [name |-> name, id |-> id, ok |-> ok, raised |-> None]

(* The call left by an exception instead of returning a value. *)
Raised(name, error) ==
    lastOp' = [name |-> name, id |-> None, ok |-> FALSE, raised |-> error]

(* sqlite3.OperationalError of a write statement that waited for the write *)
(* lock longer than the connection's timeout.                              *)
DatabaseLocked == "OperationalError: database is locked"

(* The database file when the sessions of order exist, created by earlier  *)
(* requests, and no message is stored yet.                                 *)
DBHolding(order) ==
    /\ chat_sessions = [id \in {order[i] : i \in 1..Len(order)} |-> SessionRow(None, DeepSeek)]
    /\ session_order = order
    /\ db_messages = <<>>
    /\ created = 0
    /\ dbpc = [p \in Procs |-> "idle"]
    /\ txn = [p \in Procs |-> NoTxn]
    /\ write_lock = None
    /\ lastOp = NoOp

(* The database as init_database leaves a new file: both tables empty. *)
DBIdle ==
    /\ chat_sessions = EmptyDict
    /\ session_order = <<>>
    /\ db_messages = <<>>
    /\ created = 0
    /\ dbpc = [p \in Procs |-> "idle"]
    /\ txn = [p \in Procs |-> NoTxn]
    /\ write_lock = None
    /\ lastOp = NoOp

ToolIdle ==
    /\ hpc = "idle"
    /\ hArg = EmptyDict
    /\ tIdx = 1
    /\ tool_results = <<>>
    /\ executions = <<>>
    /\ hReturn = NoResponse

-----------------------------------------------------------------------------
(* Direct calls of get_response *)
ModelIds == {AVAILABLE_MODELS[i].id : i \in 1..Len(AVAILABLE_MODELS)} \cup {UnknownModelId}

MediaValue(k) ==
    IF k = "image" THEN "data:image/png;base64,AAAA"
    ELSE IF k = "audio" THEN "data:audio/webm;base64,AAAA"
    ELSE "data:video/mp4;base64,AAAA"

(* Well-formed chat messages: a role, a text, at most one attachment. *)
ChatMessages ==
    {[role |-> r, text |-> <<"hi">>] : r \in {"user", "assistant"}}
    \cup {[role |-> "user", text |-> <<>>]}
    \cup {Put([role |-> r, text |-> <<"hi">>], k, MediaValue(k)) :
             r \in {"user", "assistant"}, k \in {"image", "audio", "video"}}

SystemPrompts == {<<>>, <<"be brief">>}

InitGR ==
    /\ op = "get_response"
    /\ cfg \in [siliconflow_api_key : BOOLEAN, groq_api_key : BOOLEAN, openai_api_key : {FALSE}]
    /\ grpc = "call"
    /\ grMessages \in SeqsUpTo(ChatMessages, MaxMsgs)
    /\ grRequested \in ModelIds
    /\ grModel = grRequested
    /\ grSystem \in SystemPrompts
    /\ grTools \in BOOLEAN
    /\ attempt = 0
    /\ outcomes = <<>>
    /\ fallbackCalls = 0
    /\ dispatched = <<>>
    /\ sent = <<>>
    /\ grResult = NoResult
    /\ PreIdle
    /\ ChatIdle
    /\ ToolIdle
    /\ DBIdle

-----------------------------------------------------------------------------
(* Direct calls of _preprocess_multimedia_messages *)
Attach(m, keys) ==
    [f \in DOMAIN m \cup keys |-> IF f \in keys THEN MediaValue(f) ELSE m[f]]

(* Messages as callers and tests pass them: any role or none, with or      *)
(* without text, with attachments.                                         *)
RawMessages ==
    {Attach([role |-> "user", text |-> t], ks) :
        t \in {<<>>, <<"hi">>},
        ks \in {{}, {"image"}, {"audio"}, {"video"}, {"image", "video"}, {"audio", "video"}}}
    \cup {Attach([role |-> "user"], ks) : ks \in {{}, {"audio"}}}
    \cup {Attach([role |-> "user", text |-> <<" ">>], {"audio"})}
    \cup {Attach([role |-> "assistant", text |-> <<"hi">>], ks) : ks \in {{}, {"audio"}, {"video"}}}
    \cup {Attach([text |-> <<"hi">>], ks) : ks \in {{}, {"audio"}}}
    \cup {Attach([role |-> "assistant"], {"audio"})}
    \cup {Attach(EmptyDict, {"audio"})}
    \cup {EmptyDict}

InitPre ==
    /\ op = "preprocess"
    /\ cfg \in [siliconflow_api_key : {TRUE}, groq_api_key : BOOLEAN, openai_api_key : BOOLEAN]
    /\ GRIdle
    /\ ppc = "call"
    /\ pArg \in {[none |-> TRUE, list |-> <<>>]}
                \cup {[none |-> FALSE, list |-> l] : l \in SeqsUpTo(RawMessages, MaxMsgs)}
    /\ pIdx = 1
    /\ processed_msg = EmptyDict
    /\ additional_text = <<>>
    /\ has_multimedia = FALSE
    /\ calls = <<>>
    /\ processed_messages = <<>>
    /\ ChatIdle
    /\ ToolIdle
    /\ DBIdle

NextPre ==
    \/ preprocess_enter
    \/ preprocess_message
    \/ preprocess_audio_groq
    \/ preprocess_audio_whisper
    \/ preprocess_video

SpecPre == InitPre /\ [][NextPre]_vars

NextGR ==
    \/ get_response
    \/ get_siliconflow_response
    \/ siliconflow_attempt
    \/ get_groq_response

SpecGR == InitGR /\ [][NextGR]_vars

RequestsTo(provider) == Len(SelectSeq(sent, LAMBDA r : r.provider = provider))

-----------------------------------------------------------------------------
(* POST /api/chat *)
TodayDate == "2026-10-30"

(* preprocess_chinese_date_terms: every date term is replaced by the date  *)
(* it denotes (the term "today" stands for the mapped terms).              *)
preprocess_chinese_date_terms(text) ==
    [i \in 1..Len(text) |-> IF text[i] = "today" THEN TodayDate ELSE text[i]]

EnhancedSystemPrompt == <<"judge: answer directly or reply SEARCH_REQUIRED:<keywords>">>

RECURSIVE Strip(_)
Strip(t) ==
    IF t = <<>> THEN t
    ELSE IF t[1] \in WhiteSpace THEN Strip(Tail(t))
    ELSE IF t[Len(t)] \in WhiteSpace THEN Strip(SubSeq(t, 1, Len(t) - 1))
    ELSE t

QueryOf_Untrimmed(response_text) == SelectSeq(response_text, LAMBDA tok : tok # SEARCH_REQUIRED)

(* response_text.replace("SEARCH_REQUIRED:", "").strip() *)
QueryOf(response_text) == Strip(SelectSeq(response_text, LAMBDA tok : tok # SEARCH_REQUIRED))

SearchBlock(query) == <<"search results for ">> \o query

NeedSearchMessage(query) ==
    [role |-> "assistant", text |-> <<"I need to search '">> \o query \o <<"' to answer.">>]
SearchResultMessage(block) ==
    [role |-> "system",
     text |-> <<"search results:\n">> \o block \o <<"\n\nanswer from the search results above.">>]
SearchUnavailable(query) ==
    <<"I think a search for '">> \o query \o <<"' is needed, but search is unavailable.">>

(* Index of the last message whose role is user, 0 when there is none. *)
LastUserIndex(msgs) ==
    IF \E i \in 1..Len(msgs) : IsUserMessage(msgs[i])
    THEN CHOOSE i \in 1..Len(msgs) :
            /\ IsUserMessage(msgs[i])
            /\ \A j \in (i + 1)..Len(msgs) : ~IsUserMessage(msgs[j])
    ELSE 0

(* The rows _save_chat_messages hands to chat_db.add_message. *)
UserRow(session_id, m, model) ==
    [session_id |-> session_id, role |-> "user", content |-> GetText(m),
     content_type |-> IF Truthy(m, "image") THEN "image"
                      ELSE IF Truthy(m, "audio") THEN "audio"
                      ELSE IF Truthy(m, "video") THEN "video"
                      ELSE "text",
     model |-> model, provider |-> None]

AssistantRow(session_id, result) ==
    [session_id |-> session_id, role |-> "assistant", content |-> result["response"],
     content_type |-> "text",
     model |-> IF "model" \in DOMAIN result THEN result["model"] ELSE None,
     provider |-> IF "provider" \in DOMAIN result THEN result["provider"] ELSE None]

StoreOutcomes == {"ok", "fail"}

(* _save_chat_messages(session_id, last_user_message, result, model): the  *)
(* add_message calls it makes, in order.                                   *)
save_chat_messages_AssistantFirst(session_id, last_user_message, result, model) ==
    <<AssistantRow(session_id, result), UserRow(session_id, last_user_message, model)>>

save_chat_messages(session_id, last_user_message, result, model) ==
    <<UserRow(session_id, last_user_message, model), AssistantRow(session_id, result)>>

Respond_StorageErrorEscapes(status, body) ==
    /\ httpResponse' = IF status = 200 /\ saving.active /\ Len(stored) < 2
                        THEN [status |-> 500,
                              body |-> [success |-> FALSE, error |-> <<"internal server error">>]]
                        ELSE [status |-> status, body |-> body]
    /\ cpc' = "done"

Respond(status, body) ==
    /\ httpResponse' = [status |-> status, body |-> body]
    /\ cpc' = "done"

(* The handler turns to its add_message calls; it returns reply after them. *)
StartSaving(rows, reply) ==
    saving' = [active |-> TRUE, rows |-> rows, reply |-> reply]

(* "if session_id and last_user_message: _save_chat_messages(...)" followed *)
(* by "return jsonify(body)" in chat().                                    *)
SaveThenRespond(result, body) ==
    LET last == LastUserIndex(messages) IN
    IF req["session_id"] # None /\ last # 0
    THEN /\ StartSaving(save_chat_messages(req["session_id"], messages[last], result,
                                           req["model"]),
                        [status |-> 200, body |-> body])
         /\ cpc' = "save"
         /\ UNCHANGED httpResponse
    ELSE /\ Respond(200, body)
         /\ UNCHANGED saving

(* chat_db.add_message called by a request handler: one connection and one *)
(* transaction (INSERT INTO messages, UPDATE chat_sessions, commit). Its    *)
(* writes become visible at the commit, and it holds the write lock from   *)
(* the INSERT to the commit, so it runs when no other client holds the     *)
(* lock. On any exception, "database is locked" included, it returns False *)
(* and nothing is written. Other clients run between two such calls.       *)
handler_add_message ==
    /\ saving.active
    /\ saving.rows # <<>>
    /\ LET row == Head(saving.rows) IN
       \E o \in StoreOutcomes :
            IF o = "ok"
            THEN /\ write_lock = None
                 /\ db_messages' = Append(db_messages, row)
                 /\ IF row.session_id \in DOMAIN chat_sessions
                    THEN /\ chat_sessions' =
                                [chat_sessions EXCEPT
                                    ![row.session_id].message_count = Incremented(@)]
                         /\ session_order' = Touch(session_order, row.session_id)
                    ELSE UNCHANGED <<chat_sessions, session_order>>
                 /\ stored' = Append(stored, row)
                 /\ Returned("add_message", row.session_id, TRUE)
            ELSE /\ Returned("add_message", row.session_id, FALSE)
                 /\ UNCHANGED <<chat_sessions, session_order, db_messages, stored>>
    /\ saving' = [saving EXCEPT !.rows = Tail(@)]
    /\ UNCHANGED <<op, cfg, grVars, preVars, toolVars, created, dbpc, txn, write_lock, cpc, req,
                   messages, search_query, modelCalls, searches, httpResponse>>

(* return jsonify(...) of chat() and chat_with_search(), reached after the *)
(* add_message calls.                                                      *)
chat_respond ==
    /\ cpc = "save"
    /\ saving.active
    /\ saving.rows = <<>>
    /\ Respond(saving.reply.status, saving.reply.body)
    /\ saving' = NoSave
    /\ UNCHANGED <<op, cfg, dbVars, toolVars, grVars, preVars, req, messages, search_query,
                   modelCalls, searches, stored>>

(* chatbot_service.get_response(msgs, model, system_prompt, temperature) *)
CallGetResponse(msgs, model, system_prompt) ==
    /\ grpc' = "call"
    /\ grMessages' = msgs
    /\ grRequested' = model
    /\ grModel' = model
    /\ grSystem' = system_prompt
    /\ grTools' = FALSE
    /\ attempt' = 0
    /\ outcomes' = <<>>
    /\ fallbackCalls' = 0
    /\ dispatched' = <<>>
    /\ sent' = <<>>
    /\ grResult' = NoResult

(* The call returned: its record is kept with the request. *)
ReturnedCall ==
    [messages |-> grMessages, requested |-> grRequested, system_prompt |-> grSystem,
     dispatched |-> dispatched, sent |-> sent, result |-> grResult]

(* Lines 1491-1534: validation, last user message, date terms, then the    *)
(* call of _preprocess_multimedia_messages.                                *)
(* A body that is not JSON, and a request without a JSON body. *)
MalformedBody == [malformed |-> TRUE]
MissingBody == [missing |-> TRUE]

chat ==
    /\ cpc = "request"
    /\ IF req = MalformedBody
       THEN \* request.get_json() raises BadRequest; the outer except answers
            /\ Respond(500, [success |-> FALSE,
                             error |-> <<"internal server error: ", "400 Bad Request">>])
            /\ UNCHANGED <<messages, preVars>>
       ELSE IF req = MissingBody
       THEN \* get_json() returns None or raises, depending on the Flask release
            /\ \E raises \in BOOLEAN :
                IF raises
                THEN Respond(500, [success |-> FALSE,
                                   error |-> <<"internal server error: ",
                                               "415 Unsupported Media Type">>])
                ELSE Respond(400, [success |-> FALSE, error |-> <<"invalid request data">>])
            /\ UNCHANGED <<messages, preVars>>
       ELSE IF req = EmptyDict
       THEN /\ Respond(400, [success |-> FALSE, error |-> <<"invalid request data">>])
            /\ UNCHANGED <<messages, preVars>>
       ELSE IF req["messages"] = <<>>
       THEN /\ Respond(400, [success |-> FALSE, error |-> <<"messages must not be empty">>])
            /\ UNCHANGED <<messages, preVars>>
       ELSE LET dated == [i \in 1..Len(req["messages"]) |->
                            LET m == req["messages"][i] IN
                            IF IsUserMessage(m) /\ Truthy(m, "text")
                            THEN Put(m, "text", preprocess_chinese_date_terms(m["text"]))
                            ELSE m]
            IN  /\ messages' = dated
                /\ cpc' = "preprocess"
                /\ ppc' = "call"
                /\ pArg' = [none |-> FALSE, list |-> dated]
                /\ UNCHANGED <<httpResponse, pIdx, processed_msg, additional_text,
                               has_multimedia, calls, processed_messages>>
    /\ UNCHANGED <<op, cfg, dbVars, toolVars, grVars, req, search_query, modelCalls, searches, stored, saving>>

(* Lines 1536-1601 and 1684-1686: the first model call. *)
chat_first_call ==
    /\ cpc = "preprocess"
    /\ ppc = "done"
    /\ IF req["enable_search"]
       THEN /\ CallGetResponse(processed_messages, req["model"],
                               IF req["system_prompt"] = <<>> THEN EnhancedSystemPrompt
                               ELSE EnhancedSystemPrompt \o <<"\n\n">> \o req["system_prompt"])
            /\ cpc' = "judgement"
       ELSE /\ CallGetResponse(processed_messages, req["model"], req["system_prompt"])
            /\ cpc' = "plain"
    /\ UNCHANGED <<op, cfg, dbVars, toolVars, preVars, req, messages, search_query, modelCalls, searches,
                   stored, saving, httpResponse>>

IsSearchRequired_Never(response_text) == FALSE

(* Line 1614: response_text.startswith("SEARCH_REQUIRED:") *)
IsSearchRequired(response_text) ==
    response_text # <<>> /\ response_text[1] = SEARCH_REQUIRED

(* Lines 1603-1616 and 1671-1683: the judgement came back. *)
chat_judgement ==
    /\ cpc = "judgement"
    /\ grpc = "done"
    /\ modelCalls' = Append(modelCalls, ReturnedCall)
    /\ IF ~grResult["success"]
       THEN /\ Respond(500, [success |-> FALSE,
                             error |-> <<"AI judgement failed: ">> \o grResult["error"]])
            /\ UNCHANGED <<search_query, saving>>
       ELSE IF IsSearchRequired(grResult["response"])
       THEN /\ search_query' = QueryOf(grResult["response"])
            /\ cpc' = "search"
            /\ UNCHANGED <<saving, httpResponse>>
       ELSE /\ SaveThenRespond(grResult,
                            [success |-> TRUE, response |-> grResult["response"],
                             provider |-> grResult["provider"], model |-> grResult["model"],
                             session_id |-> req["session_id"], search_performed |-> FALSE])
            /\ UNCHANGED search_query
    /\ UNCHANGED <<op, cfg, dbVars, toolVars, grVars, preVars, req, messages, searches, stored>>

SearchSucceeds_EmptyQueryAllowed(query, outcome) == outcome = "ok"

(* _execute_web_search: an empty query fails before any request is made    *)
(* (lines 1188-1192); otherwise the result is the search service's.        *)
SearchSucceeds(query, outcome) == query # <<>> /\ outcome = "ok"

(* Lines 1619-1634 and 1655-1670: function_executor.execute_function(      *)
(* "web_search", {"query": search_query}), then the second model call or   *)
(* the fallback message.                                                   *)
chat_search ==
    /\ cpc = "search"
    /\ \E outcome \in {"ok", "fail"} :
        LET issued == search_query # <<>>
            ok     == SearchSucceeds(search_query, outcome)
        IN  /\ searches' = Append(searches, [query |-> search_query, issued |-> issued,
                                             success |-> ok])
            /\ IF ok
               THEN /\ CallGetResponse(processed_messages
                                        \o <<NeedSearchMessage(search_query),
                                             SearchResultMessage(SearchBlock(search_query))>>,
                                       req["model"], req["system_prompt"])
                    /\ cpc' = "final"
                    /\ UNCHANGED <<saving, httpResponse>>
               ELSE /\ SaveThenRespond([response |-> SearchUnavailable(search_query)],
                                    [success |-> TRUE,
                                     response |-> SearchUnavailable(search_query),
                                     provider |-> modelCalls[1].result["provider"],
                                     model |-> modelCalls[1].result["model"],
                                     session_id |-> req["session_id"],
                                     search_attempted |-> TRUE, search_failed |-> TRUE])
                    /\ UNCHANGED grVars
    /\ UNCHANGED <<op, cfg, dbVars, toolVars, preVars, req, messages, search_query, modelCalls,
                   stored>>

(* Lines 1636-1654: the second model call came back. *)
chat_final ==
    /\ cpc = "final"
    /\ grpc = "done"
    /\ modelCalls' = Append(modelCalls, ReturnedCall)
    /\ IF grResult["success"]
       THEN /\ SaveThenRespond(grResult,
                            [success |-> TRUE, response |-> grResult["response"],
                             provider |-> grResult["provider"], model |-> grResult["model"],
                             session_id |-> req["session_id"], search_performed |-> TRUE,
                             search_query |-> search_query])
       ELSE /\ Respond(500, [success |-> FALSE,
                             error |-> <<"reply after search failed: ">> \o grResult["error"]])
            /\ UNCHANGED saving
    /\ UNCHANGED <<op, cfg, dbVars, toolVars, grVars, preVars, req, messages, search_query,
                   searches, stored>>

(* Lines 1688-1704: the only model call of a request with search disabled. *)
chat_plain ==
    /\ cpc = "plain"
    /\ grpc = "done"
    /\ modelCalls' = Append(modelCalls, ReturnedCall)
    /\ IF grResult["success"]
       THEN /\ SaveThenRespond(grResult,
                            [success |-> TRUE, response |-> grResult["response"],
                             provider |-> grResult["provider"], model |-> grResult["model"],
                             session_id |-> req["session_id"]])
       ELSE /\ Respond(500, [success |-> FALSE, error |-> grResult["error"]])
            /\ UNCHANGED saving
    /\ UNCHANGED <<op, cfg, dbVars, toolVars, grVars, preVars, req, messages, search_query,
                   searches, stored>>

MaxChatMsgs == 1

ChatRequestMessages ==
    {Attach([role |-> "user", text |-> t], ks) :
        t \in {<<"hi">>}, ks \in {{}, {"image"}, {"audio"}, {"video"}}}
    \cup {[role |-> "user", text |-> <<"gold price", "today">>]}
    \cup {Attach([role |-> "user"], {"audio"})}
    \cup {[role |-> "assistant", text |-> <<"hi">>]}

ChatRequests ==
    {EmptyDict} \cup
    [messages : SeqsUpTo(ChatRequestMessages, MaxChatMsgs),
     model : {DeepSeek, Scout, UnknownModelId},
     session_id : {None, "s1"},
     system_prompt : SystemPrompts,
     enable_search : BOOLEAN]

InitChat ==
    /\ op = "chat"
    /\ cfg \in [siliconflow_api_key : {TRUE}, groq_api_key : BOOLEAN, openai_api_key : BOOLEAN]
    /\ GRIdle
    /\ PreIdle
    /\ cpc = "request"
    /\ req \in ChatRequests
    /\ messages = <<>>
    /\ search_query = <<>>
    /\ modelCalls = <<>>
    /\ searches = <<>>
    /\ stored = <<>>
    /\ saving = NoSave
    /\ httpResponse = NoResponse
    /\ ToolIdle
    /\ \E order \in {<<>>, <<"s1">>} : DBHolding(order)

NextChat ==
    \/ chat
    \/ preprocess_enter
    \/ preprocess_message
    \/ preprocess_audio_groq
    \/ preprocess_audio_whisper
    \/ preprocess_video
    \/ chat_first_call
    \/ get_response
    \/ get_siliconflow_response
    \/ siliconflow_attempt
    \/ get_groq_response
    \/ chat_judgement
    \/ chat_search
    \/ chat_final
    \/ chat_plain
    \/ handler_add_message
    \/ chat_respond

SpecChat == InitChat /\ [][NextChat]_vars

(* /api/chat with every kind of request body, the ones that are not a JSON *)
(* object included.                                                        *)
InitChatBody ==
    /\ op = "chat"
    /\ cfg \in [siliconflow_api_key : {TRUE}, groq_api_key : BOOLEAN, openai_api_key : BOOLEAN]
    /\ GRIdle
    /\ PreIdle
    /\ cpc = "request"
    /\ req \in ChatRequests \cup {MalformedBody, MissingBody}
    /\ messages = <<>>
    /\ search_query = <<>>
    /\ modelCalls = <<>>
    /\ searches = <<>>
    /\ stored = <<>>
    /\ saving = NoSave
    /\ httpResponse = NoResponse
    /\ ToolIdle
    /\ \E order \in {<<>>, <<"s1">>} : DBHolding(order)

SpecChatBody == InitChatBody /\ [][NextChat]_vars

-----------------------------------------------------------------------------
(* _handle_tool_calls *)
MaxToolCalls == 2

(* A tool call as the provider returns it: id, function name, and the      *)
(* function arguments, a JSON string. "gold price" stands for              *)
(* {"query": "gold price"}, "" for {"query": ""} and "not json" for a      *)
(* string json.loads rejects.                                              *)
ToolCallKinds ==
    { [name |-> "web_search", arguments |-> "gold price"],
      [name |-> "web_search", arguments |-> ""],
      [name |-> "web_search", arguments |-> "not json"],
      [name |-> "get_weather", arguments |-> "gold price"] }

ToolCallId(i) == IF i = 1 THEN "call_1" ELSE IF i = 2 THEN "call_2" ELSE "call_3"

ToolCallLists ==
    { [i \in 1..Len(ks) |-> [id |-> ToolCallId(i), name |-> ks[i].name,
                             arguments |-> ks[i].arguments]] :
        ks \in SeqsUpTo(ToolCallKinds, MaxToolCalls) }

(* The result of a provider call that asked for these tool calls. *)
ToolCallResultWith(provider, model, tcs) ==
    [success |-> TRUE,
     message |-> [role |-> "assistant", content |-> <<>>, tool_calls |-> tcs],
     tool_calls |-> tcs, provider |-> provider, model |-> model,
     requires_tool_execution |-> TRUE]

(* json.loads(tool_call['function']['arguments']) *)
ArgumentsParse(arguments) == arguments # "not json"
QueryArg(arguments) == IF arguments = "" THEN <<>> ELSE <<arguments>>

(* What BochaSearchService.search can do with a query: return one page, or *)
(* fail on the request (RequestException) or on the reply (any other       *)
(* exception, a reply code other than 200 included).                       *)
ToolSearchOutcomes == {"ok", "request_failed", "processing_failed"}

(* Lines 975-986: the error text of a failed search. *)
SearchError(outcome) ==
    IF outcome = "request_failed" THEN <<"search request failed: ", "timeout">>
    ELSE <<"search processing failed: ", "code=500">>

(* Lines 939-950: a page of the reply as search formats it. *)
Page(query) ==
    [title |-> "Gold", url |-> "http://x/1", snippet |-> "sn", summary |-> "su",
     siteName |-> "site", publishedDate |-> "2026-10-30"]

(* Lines 963-986: the dict BochaSearchService.search returns; the reply    *)
(* holds one page and no image.                                            *)
search(query, outcome) ==
    IF outcome = "ok"
    THEN [success |-> TRUE, query |-> query, results |-> <<Page(query)>>, images |-> <<>>,
          total_count |-> 1, search_provider |-> "Bocha AI"]
    ELSE [success |-> FALSE, error |-> SearchError(outcome), results |-> <<>>]

(* function_executor.execute_function(function_name, arguments) *)
execute_function(name, arguments, outcome) ==
    IF name = "web_search"
    THEN IF QueryArg(arguments) = <<>> THEN Failure(<<"search query must not be empty">>)
         ELSE IF SearchSucceeds(QueryArg(arguments), outcome)
         THEN [success |-> TRUE, result |-> SearchBlock(QueryArg(arguments)),
               raw_results |-> <<Page(QueryArg(arguments))>>, total_count |-> 1]
         ELSE Failure(SearchError(outcome))
    ELSE Failure(<<"unknown function: ", name>>)

(* json.dumps of a page and of a list of pages. *)
DumpPage(page) ==
    <<"{\"title\": \"", page.title, "\", \"url\": \"", page.url, "\", \"snippet\": \"",
      page.snippet, "\", \"summary\": \"", page.summary, "\", \"siteName\": \"",
      page.siteName, "\", \"publishedDate\": \"", page.publishedDate, "\"}">>

RECURSIVE DumpPages(_)
DumpPages(pages) ==
    IF pages = <<>> THEN <<>>
    ELSE DumpPage(Head(pages))
            \o (IF Len(pages) > 1 THEN <<", ">> ELSE <<>>) \o DumpPages(Tail(pages))

(* json.dumps(tool_result) of a success, all its keys in order; the        *)
(* failure text otherwise.                                                 *)
ToolContent(tool_result) ==
    IF tool_result["success"]
    THEN <<"{\"success\": true, \"result\": \"">> \o tool_result["result"]
            \o <<"\", \"raw_results\": [">> \o DumpPages(tool_result["raw_results"])
            \o <<"], \"total_count\": ", ToString(tool_result["total_count"]), "}">>
    ELSE <<"tool execution failed: ">> \o tool_result["error"]

ToolMessage(tool_call, tool_result) ==
    [role |-> "tool", tool_call_id |-> tool_call.id, content |-> ToolContent(tool_result)]

(* Lines 1738-1740 *)
enhanced_messages == hArg.messages \o <<hArg.result["message"]>> \o tool_results

(* Lines 1715-1717: entry. *)
handle_tool_calls ==
    /\ hpc = "call"
    /\ tool_results' = <<>>
    /\ tIdx' = 1
    /\ hpc' = IF hArg.result["tool_calls"] = <<>> THEN "followup" ELSE "loop"
    /\ UNCHANGED <<op, cfg, dbVars, grVars, preVars, chatVars, hArg, executions, hReturn>>

(* Lines 1720-1735: one iteration of the loop over the tool calls. *)
execute_tool_call ==
    /\ hpc = "loop"
    /\ LET tool_call == hArg.result["tool_calls"][tIdx] IN
       IF ~ArgumentsParse(tool_call.arguments)
       THEN \* json.loads raises: lines 1774-1779
            /\ hReturn' = [success |-> FALSE, error |-> <<"tool call handling failed">>]
            /\ hpc' = "done"
            /\ UNCHANGED <<tIdx, tool_results, executions>>
       ELSE \E outcome \in ToolSearchOutcomes :
            LET tool_result == execute_function(tool_call.name, tool_call.arguments, outcome) IN
            /\ executions' = Append(executions, [id |-> tool_call.id, name |-> tool_call.name,
                                                 arguments |-> tool_call.arguments,
                                                 result |-> tool_result])
            /\ tool_results' = Append(tool_results, ToolMessage(tool_call, tool_result))
            /\ tIdx' = tIdx + 1
            /\ hpc' = IF tIdx = Len(hArg.result["tool_calls"]) THEN "followup" ELSE "loop"
            /\ UNCHANGED hReturn
    /\ UNCHANGED <<op, cfg, dbVars, grVars, preVars, chatVars, hArg>>

(* Lines 1738-1743: the follow-up call of get_response, without tools. *)
handle_tool_followup ==
    /\ hpc = "followup"
    /\ CallGetResponse(enhanced_messages, hArg.model, hArg.system_prompt)
    /\ hpc' = "await"
    /\ UNCHANGED <<op, cfg, dbVars, preVars, chatVars, hArg, tIdx, tool_results, executions, hReturn>>

(* Lines 1745-1772: the follow-up call returned. *)
handle_tool_return ==
    /\ hpc = "await"
    /\ grpc = "done"
    /\ modelCalls' = Append(modelCalls, ReturnedCall)
    /\ LET n == Len(hArg.result["tool_calls"])
           last == LastUserIndex(hArg.messages)
           value == [success |-> TRUE, response |-> grResult["response"],
                     provider |-> grResult["provider"], model |-> grResult["model"],
                     session_id |-> hArg.session_id, tool_calls_executed |-> n,
                     search_performed |->
                        \E i \in 1..n : hArg.result["tool_calls"][i].name = "web_search"]
       IN  IF grResult["success"]
           THEN IF hArg.session_id # None /\ last # 0
                THEN /\ StartSaving(save_chat_messages(hArg.session_id, hArg.messages[last],
                                                       grResult, hArg.model),
                                    value)
                     /\ hpc' = "save"
                     /\ UNCHANGED hReturn
                ELSE /\ hReturn' = value
                     /\ hpc' = "done"
                     /\ UNCHANGED saving
           ELSE /\ hReturn' = [success |-> FALSE,
                               error |-> <<"final reply failed: ">> \o grResult["error"],
                               tool_calls_executed |-> n]
                /\ hpc' = "done"
                /\ UNCHANGED saving
    /\ UNCHANGED <<op, cfg, dbVars, grVars, preVars, cpc, req, messages, search_query, searches,
                   stored, httpResponse, hArg, tIdx, tool_results, executions>>

(* Lines 1759-1767: the return after _save_chat_messages. *)
handle_tool_result ==
    /\ hpc = "save"
    /\ saving.active
    /\ saving.rows = <<>>
    /\ hReturn' = saving.reply
    /\ hpc' = "done"
    /\ saving' = NoSave
    /\ UNCHANGED <<op, cfg, dbVars, grVars, preVars, cpc, req, messages, search_query, modelCalls,
                   searches, stored, httpResponse, hArg, tIdx, tool_results, executions>>

ToolTurnMessages ==
    { [role |-> "user", text |-> <<"gold price">>],
      [role |-> "user", text |-> <<"hi">>, image |-> MediaValue("image")],
      [role |-> "assistant", text |-> <<"hi">>] }

InitTools ==
    /\ op = "handle_tool_calls"
    /\ cfg \in [siliconflow_api_key : {TRUE}, groq_api_key : BOOLEAN, openai_api_key : {FALSE}]
    /\ GRIdle
    /\ PreIdle
    /\ ChatIdle
    /\ hpc = "call"
    /\ hArg \in [result : {ToolCallResultWith("groq", Scout, tcs) : tcs \in ToolCallLists},
                 messages : SeqsUpTo(ToolTurnMessages, MaxChatMsgs),
                 model : {DeepSeek, Scout, UnknownModelId},
                 system_prompt : {<<>>},
                 session_id : {None, "s1"}]
    /\ tIdx = 1
    /\ tool_results = <<>>
    /\ executions = <<>>
    /\ hReturn = NoResponse
    /\ \E order \in {<<>>, <<"s1">>} : DBHolding(order)

NextTools ==
    \/ handle_tool_calls
    \/ execute_tool_call
    \/ handle_tool_followup
    \/ get_response
    \/ get_siliconflow_response
    \/ siliconflow_attempt
    \/ get_groq_response
    \/ handle_tool_return
    \/ handler_add_message
    \/ handle_tool_result

SpecTools == InitTools /\ [][NextTools]_vars

-----------------------------------------------------------------------------
(* /api/chat/search: chat_with_search *)
(* A key of the JSON body: left out, or present with a value. *)
Absent == [present |-> FALSE]
Given(v) == [present |-> TRUE, value |-> v]

(* dict.get(key, default) on a JSON object whose absent keys are left out. *)
Get(d, k, default) == IF k \in DOMAIN d THEN d[k] ELSE default

Body(message, session_id, model, query, auto_search) ==
    LET With(b, k, v) == IF v.present THEN Put(b, k, v.value) ELSE b
    IN  With(With(With(With(With(EmptyDict, "message", message), "session_id", session_id),
                       "model", model), "search_query", query), "auto_search", auto_search)

(* The request as Flask presents it: is_json from the Content-Type, and    *)
(* the body: a JSON object, the JSON value null, or text that is not JSON. *)
SearchRequests ==
    { [is_json |-> FALSE, malformed |-> FALSE, data |-> EmptyDict],
      [is_json |-> TRUE, malformed |-> TRUE, data |-> EmptyDict],
      [is_json |-> TRUE, malformed |-> FALSE, data |-> [null |-> TRUE]] }
    \cup
    { [is_json |-> TRUE, malformed |-> FALSE, data |-> Body(m, sid, model, q, a)] :
        m \in {Absent, Given(<<" ">>), Given(<<"gold price">>)},
        sid \in {Absent, Given("s1")},
        model \in {Absent, Given(Scout), Given(UnknownModelId)},
        q \in {Absent, Given(<<"gold">>)},
        a \in {Absent, Given(FALSE)} }

SearchSystemInstructions == <<"You are an intelligent assistant that combines web search results">>

(* The f-string that wraps the user's question and the search block. *)
EnhancedMessage(user_message, search_info) ==
    <<"user question: ">> \o user_message \o <<"\n\n[important: answer from these results]\n\n">>
        \o search_info \o <<"\n\nanswer from the search results above.">>

SearchMessages(enhanced_message) ==
    << [role |-> "system", content |-> SearchSystemInstructions],
       [role |-> "user", content |-> enhanced_message] >>

(* Lines 2438-2608: validation, the optional search, the messages and the  *)
(* call of get_response.                                                   *)
chat_with_search ==
    /\ op = "chat_with_search"
    /\ cpc = "request"
    /\ IF ~req.is_json
       THEN /\ Respond(400, [success |-> FALSE, error |-> <<"request must contain JSON">>])
            /\ UNCHANGED <<grVars, messages, search_query, searches>>
       ELSE IF req.malformed
       THEN \* request.get_json() raises; the outer except answers
            /\ Respond(500, [success |-> FALSE, error |-> <<"chat failed: ", "400 Bad Request">>])
            /\ UNCHANGED <<grVars, messages, search_query, searches>>
       ELSE IF req.data = [null |-> TRUE]
       THEN /\ Respond(400, [success |-> FALSE, error |-> <<"invalid JSON data">>])
            /\ UNCHANGED <<grVars, messages, search_query, searches>>
       ELSE LET user_message == Get(req.data, "message", <<>>) IN
            IF strip_empty(user_message)
            THEN /\ Respond(400, [success |-> FALSE, error |-> <<"message must not be empty">>])
                 /\ UNCHANGED <<grVars, messages, search_query, searches>>
            ELSE LET model == Get(req.data, "model", DeepSeek)
                     query == Get(req.data, "search_query", user_message)
                     auto_search == Get(req.data, "auto_search", TRUE)
                 IN  /\ search_query' = query
                     /\ \E outcome \in ToolSearchOutcomes :
                          LET search_results == search(query, outcome)
                              ok == auto_search /\ search_results.success
                              enhanced_message ==
                                  IF ok THEN EnhancedMessage(user_message, SearchBlock(query))
                                  ELSE user_message
                          IN  /\ searches' = IF auto_search
                                             THEN <<[query |-> query, issued |-> TRUE,
                                                     success |-> ok,
                                                     search_results |-> search_results]>>
                                             ELSE <<>>
                              /\ (~auto_search => outcome = "request_failed")
                              /\ messages' = SearchMessages(enhanced_message)
                              /\ CallGetResponse(SearchMessages(enhanced_message), model, <<>>)
                     /\ cpc' = "answer"
                     /\ UNCHANGED httpResponse
    /\ UNCHANGED <<op, cfg, dbVars, toolVars, preVars, req, modelCalls, stored, saving>>

SearchRow(session_id, role, content) ==
    [session_id |-> session_id, role |-> role, content |-> content, content_type |-> "text",
     model |-> None, provider |-> None]

(* The value of search_results: None without a search, the reply of        *)
(* bocha_search_service.search otherwise.                                  *)
NoSearchResults == [none |-> TRUE]

SearchResults ==
    IF searches = <<>> THEN NoSearchResults ELSE searches[1].search_results

(* Lines 2610-2629: the call returned. *)
chat_with_search_return ==
    /\ op = "chat_with_search"
    /\ cpc = "answer"
    /\ grpc = "done"
    /\ modelCalls' = Append(modelCalls, ReturnedCall)
    /\ LET session_id == Get(req.data, "session_id", "default") IN
       IF grResult["success"]
       THEN /\ StartSaving(<<SearchRow(session_id, "user", req.data["message"]),
                              SearchRow(session_id, "assistant", grResult["response"])>>,
                            [status |-> 200,
                             body |-> [success |-> TRUE, response |-> grResult["response"],
                                       model_used |-> Get(req.data, "model", DeepSeek),
                                       provider |-> grResult["provider"],
                                       search_performed |-> Get(req.data, "auto_search", TRUE),
                                       search_results |-> SearchResults,
                                       session_id |-> session_id]])
            /\ cpc' = "save"
            /\ UNCHANGED httpResponse
       ELSE /\ Respond(500, [success |-> FALSE, error |-> grResult["error"],
                             search_results |-> SearchResults])
            /\ UNCHANGED saving
    /\ UNCHANGED <<op, cfg, dbVars, toolVars, grVars, preVars, req, messages, search_query,
                   searches, stored>>

InitSearch ==
    /\ op = "chat_with_search"
    /\ cfg \in [siliconflow_api_key : {TRUE}, groq_api_key : BOOLEAN, openai_api_key : {FALSE}]
    /\ GRIdle
    /\ PreIdle
    /\ ToolIdle
    /\ \E order \in {<<>>, <<"s1">>} : DBHolding(order)
    /\ cpc = "request"
    /\ req \in SearchRequests
    /\ messages = <<>>
    /\ search_query = <<>>
    /\ modelCalls = <<>>
    /\ searches = <<>>
    /\ stored = <<>>
    /\ saving = NoSave
    /\ httpResponse = NoResponse

NextSearch ==
    \/ chat_with_search
    \/ get_response
    \/ get_siliconflow_response
    \/ siliconflow_attempt
    \/ get_groq_response
    \/ chat_with_search_return
    \/ handler_add_message
    \/ chat_respond

SpecSearch == InitSearch /\ [][NextSearch]_vars

-----------------------------------------------------------------------------
(* /api/upload, /api/upload/audio, /api/upload/video: multipart uploads.   *)
(* A file name is its sequence of dot-separated parts; a file's content is *)
(* known by its length in bytes.                                           *)
MB == 1024 * 1024
IMAGE_LIMIT == 4 * MB
AUDIO_LIMIT == 10 * MB
VIDEO_LIMIT == 50 * MB
RECORD_LIMIT == 5 * MB

ImageExtensions == {"png", "jpg", "jpeg", "gif", "webp"}
AudioExtensions == {"mp3", "wav", "ogg", "m4a", "aac", "flac", "webm"}
VideoExtensions == {"mp4", "avi", "mov", "wmv", "flv", "webm", "mkv"}

(* str.lower() on the extensions that occur. *)
Lower(part) ==
    IF part = "MP3" THEN "mp3" ELSE IF part = "PNG" THEN "png" ELSE IF part = "MP4" THEN "mp4"
    ELSE part

(* '.' in filename *)
HasDot(filename) == Len(filename) >= 2

(* filename.rsplit('.', 1)[1].lower() *)
Extension(filename) == Lower(filename[Len(filename)])

ExtensionAllowed(filename, allowed_extensions) ==
    HasDot(filename) /\ Extension(filename) \in allowed_extensions

TooLarge_AtLimit(file_size, limit) == file_size >= limit

(* file_size > limit *)
TooLarge(file_size, limit) == file_size > limit

(* data:{mime_type};base64,{base64 of the file_size bytes read} *)
DataUrl(mime_type, file_size) == [mime_type |-> mime_type, decoded_size |-> file_size]

ImageMime(ext) == <<"image/", IF ext # "jpg" THEN ext ELSE "jpeg">>
AudioMime(ext) == <<"audio/", IF ext # "m4a" THEN ext ELSE "mp4">>
VideoMime(ext) == <<"video/", ext>>

NoFileError == <<"no file found">>
NoSelectionError == <<"no file selected">>
FormatError == <<"unsupported file format">>
SizeError(limit) == <<"file too large, the maximum is ", limit>>

(* The common body of the three handlers; they differ in the form field,   *)
(* the extensions, the limit, the MIME type, the name of the data key and  *)
(* the key duration (always None) that the audio and the video body carry. *)
Upload(allowed_extensions, limit, mime_type, data_key, has_duration) ==
    /\ cpc = "request"
    /\ IF ~req.has_file
       THEN Respond(400, [success |-> FALSE, error |-> NoFileError])
       ELSE IF req.filename = <<>>
       THEN Respond(400, [success |-> FALSE, error |-> NoSelectionError])
       ELSE IF ~ExtensionAllowed(req.filename, allowed_extensions)
       THEN Respond(400, [success |-> FALSE, error |-> FormatError])
       ELSE IF TooLarge(req.file_size, limit)
       THEN Respond(400, [success |-> FALSE, error |-> SizeError(limit)])
       ELSE LET body == [success |-> TRUE, data_key |-> data_key,
                         data |-> DataUrl(mime_type, req.file_size),
                         file_size |-> req.file_size, file_name |-> req.filename]
            IN  Respond(200, IF has_duration THEN Put(body, "duration", None) ELSE body)
    /\ UNCHANGED <<op, cfg, dbVars, toolVars, grVars, preVars, req, messages, search_query,
                   modelCalls, searches, stored, saving>>

upload_image ==
    /\ op = "upload_image"
    /\ Upload(ImageExtensions, IMAGE_LIMIT,
              IF HasDot(req.filename) THEN ImageMime(Extension(req.filename)) ELSE <<>>,
              "image_data", FALSE)

upload_audio ==
    /\ op = "upload_audio"
    /\ Upload(AudioExtensions, AUDIO_LIMIT,
              IF HasDot(req.filename) THEN AudioMime(Extension(req.filename)) ELSE <<>>,
              "audio_data", TRUE)

upload_video ==
    /\ op = "upload_video"
    /\ Upload(VideoExtensions, VIDEO_LIMIT,
              IF HasDot(req.filename) THEN VideoMime(Extension(req.filename)) ELSE <<>>,
              "video_data", TRUE)

UploadLimit(endpoint) ==
    IF endpoint = "upload_image" THEN IMAGE_LIMIT
    ELSE IF endpoint = "upload_audio" THEN AUDIO_LIMIT
    ELSE VIDEO_LIMIT

UploadExtensions(endpoint) ==
    IF endpoint = "upload_image" THEN ImageExtensions
    ELSE IF endpoint = "upload_audio" THEN AudioExtensions
    ELSE VideoExtensions

UploadEndpoints == {"upload_image", "upload_audio", "upload_video"}

FileNames ==
    { <<>>, <<"noext">>, <<"a", "txt">>, <<"a", "png">>, <<"a", "jpg">>, <<"a", "PNG">>,
      <<"a", "mp3">>, <<"a", "MP3">>, <<"a", "m4a">>, <<"a", "webm">>, <<"a", "mp4">>,
      <<"a", "tar", "mp4">>, <<"a", "mp3", "txt">> }

FileSizes(limit) == {0, 1, limit - 1, limit, limit + 1, 2 * limit}

UploadRequests(endpoint) ==
    [has_file : BOOLEAN, filename : FileNames, file_size : FileSizes(UploadLimit(endpoint))]

-----------------------------------------------------------------------------
(* /api/upload/record: upload_recording *)
Transcripts == {<<>>, <<"hello">>, <<" ", "hello", " ">>, <<" ">>}

(* audio_data: whether it starts with data:audio/, whether the part after  *)
(* the comma decodes as base64, and the length of the decoded bytes.       *)
Recordings ==
    [prefix_ok : BOOLEAN, decodes : BOOLEAN,
     file_size : {1, RECORD_LIMIT, RECORD_LIMIT + 1}]

Languages == {"en"}

RecordBody(audio_data, transcribe, transcript, language) ==
    LET With(b, k, v) == IF v.present THEN Put(b, k, v.value) ELSE b
    IN  With(With(With(With(EmptyDict, "audio_data", audio_data), "transcribe", transcribe),
                  "transcript", transcript),
             "language", language)

RecordRequests ==
    { RecordBody(a, t, c, l) :
        a \in {Absent} \cup {Given(r) : r \in Recordings},
        t \in {Absent, Given(TRUE), Given(FALSE)},
        c \in {Absent} \cup {Given(x) : x \in Transcripts},
        l \in {Absent} \cup {Given(x) : x \in Languages} }

(* What the transcription endpoint can answer: a JSON reply with or        *)
(* without the keys text and duration, or an error (a status other than    *)
(* 2xx, a timeout, a body that is not JSON).                               *)
WhisperReplies ==
    { Put(Put([ok |-> TRUE], "text", t), "duration", d) :
        t \in {<<"hello there">>, <<" ", "hello there", " ">>, <<" ">>, <<>>}, d \in {3} }
    \cup { Put([ok |-> TRUE], "text", t) : t \in {<<"hello there">>, <<>>} }
    \cup { [ok |-> TRUE], [ok |-> FALSE] }

(* Lines 394-482: transcribe_audio(audio_data, language) on audio_data     *)
(* that starts with data:audio/ and decodes; no request is made without    *)
(* the key.                                                                *)
transcribe_audio(language, reply) ==
    IF ~cfg.openai_api_key
    THEN [success |-> FALSE, error |-> <<"OpenAI API key not configured">>,
          fallback_available |-> TRUE,
          fallback_message |-> <<"use the browser's speech recognition">>]
    ELSE IF reply.ok
    THEN [success |-> TRUE, text |-> Strip(Get(reply, "text", <<>>)), language |-> language,
          duration |-> Get(reply, "duration", None), model |-> "whisper-1"]
    ELSE [success |-> FALSE, error |-> <<"transcription failed: ", "error">>]

(* The outcome of the call as the record of calls names it. *)
TranscriptionOutcome(transcription_result) ==
    IF transcription_result.success
    THEN IF transcription_result.text = <<>> THEN "ok_empty" ELSE "ok_text"
    ELSE IF Get(transcription_result, "fallback_available", FALSE) THEN "no_key"
    ELSE "fail"

transcribe_audio_fallback_Verbatim(text) ==
    IF text = <<>>
    THEN [success |-> FALSE, error |-> <<"no transcript provided">>, fallback_used |-> TRUE]
    ELSE [success |-> TRUE, text |-> text, language |-> "auto",
          model |-> "browser-speech-api", fallback_used |-> TRUE]

(* transcribe_audio_fallback(audio_data, text) *)
transcribe_audio_fallback(text) ==
    IF text = <<>>
    THEN [success |-> FALSE, error |-> <<"no transcript provided">>, fallback_used |-> TRUE]
    ELSE [success |-> TRUE, text |-> Strip(text), language |-> "auto",
          model |-> "browser-speech-api", fallback_used |-> TRUE]

(* f"recording_{now:%Y%m%d_%H%M%S}.webm", as the parts of a file name. *)
RecordingName == <<"recording_<now>", "webm">>

(* response_data before the transcription. *)
RecordingBase(audio_data) ==
    [success |-> TRUE, audio_data |-> audio_data, file_size |-> audio_data.file_size,
     file_name |-> RecordingName]

(* Lines 2027-2088: validation, and the client's transcript when given. *)
upload_recording ==
    /\ op = "upload_recording"
    /\ cpc = "request"
    /\ IF "audio_data" \notin DOMAIN req
       THEN /\ Respond(400, [success |-> FALSE, error |-> <<"no audio data found">>])
       ELSE LET audio_data == req["audio_data"]
                transcribe == Get(req, "transcribe", TRUE)
                client_transcript == Get(req, "transcript", <<>>)
            IN  IF ~audio_data.prefix_ok
                THEN Respond(400, [success |-> FALSE, error |-> <<"invalid audio data">>])
                ELSE IF ~audio_data.decodes
                THEN Respond(400, [success |-> FALSE, error |-> <<"audio data parse failed">>])
                ELSE IF TooLarge(audio_data.file_size, RECORD_LIMIT)
                THEN Respond(400, [success |-> FALSE, error |-> SizeError(RECORD_LIMIT)])
                ELSE IF ~transcribe
                THEN Respond(200, RecordingBase(audio_data))
                ELSE IF client_transcript # <<>>
                THEN LET fallback_result == transcribe_audio_fallback(client_transcript) IN
                     Respond(200,
                        IF fallback_result.success
                        THEN Put(RecordingBase(audio_data), "transcription",
                                 [text |-> fallback_result.text,
                                  language |-> fallback_result.language,
                                  model |-> fallback_result.model,
                                  source |-> "browser-speech-api"])
                        ELSE Put(RecordingBase(audio_data), "transcription_error",
                                 fallback_result.error))
                ELSE /\ cpc' = "transcribe"
                     /\ UNCHANGED httpResponse
    /\ UNCHANGED <<op, cfg, dbVars, toolVars, grVars, preVars, req, messages, search_query,
                   modelCalls, searches, stored, saving>>

(* Lines 2089-2110: server-side transcription with transcribe_audio. *)
upload_recording_transcribe ==
    /\ op = "upload_recording"
    /\ cpc = "transcribe"
    /\ \E reply \in (IF cfg.openai_api_key THEN WhisperReplies ELSE {[ok |-> FALSE]}) :
        LET language == Get(req, "language", "zh")
            transcription_result == transcribe_audio(language, reply)
            response_data == RecordingBase(req["audio_data"])
            failed == Put(response_data, "transcription_error", transcription_result.error)
        IN  /\ calls' = Append(calls, [fn |-> "transcribe_audio", language |-> language,
                                       outcome |-> TranscriptionOutcome(transcription_result)])
            /\ Respond(200,
                 IF transcription_result.success
                 THEN Put(response_data, "transcription",
                          [text |-> transcription_result.text,
                           language |-> transcription_result.language,
                           duration |-> Get(transcription_result, "duration", None),
                           model |-> Get(transcription_result, "model", None),
                           source |-> "openai-whisper"])
                 ELSE IF Get(transcription_result, "fallback_available", FALSE)
                 THEN Put(failed, "fallback_suggestion",
                          Get(transcription_result, "fallback_message", None))
                 ELSE failed)
    /\ UNCHANGED <<op, cfg, dbVars, toolVars, grVars, req, messages, search_query, modelCalls,
                   searches, stored, saving, ppc, pArg, pIdx,
                   processed_msg, additional_text, has_multimedia, processed_messages>>

InitUpload ==
    /\ op \in UploadEndpoints \cup {"upload_recording"}
    /\ cfg \in [siliconflow_api_key : {TRUE}, groq_api_key : {TRUE}, openai_api_key : BOOLEAN]
    /\ GRIdle
    /\ PreIdle
    /\ ToolIdle
    /\ DBIdle
    /\ cpc = "request"
    /\ req \in IF op = "upload_recording" THEN RecordRequests ELSE UploadRequests(op)
    /\ messages = <<>>
    /\ search_query = <<>>
    /\ modelCalls = <<>>
    /\ searches = <<>>
    /\ stored = <<>>
    /\ saving = NoSave
    /\ httpResponse = NoResponse

NextUpload ==
    \/ upload_image
    \/ upload_audio
    \/ upload_video
    \/ upload_recording
    \/ upload_recording_transcribe

SpecUpload == InitUpload /\ [][NextUpload]_vars

-----------------------------------------------------------------------------
(* ChatDatabase: the tables chat_sessions and messages of one SQLite file, *)
(* used by two clients. Every method opens its own connection; a           *)
(* connection never sets PRAGMA foreign_keys, so the FOREIGN KEY clause of *)
(* messages is not enforced. A write statement takes SQLite's write lock   *)
(* until its transaction commits or rolls back; a client that cannot get   *)
(* the lock within the connection timeout gets an exception.               *)
MaxSessions == 2
MaxDbMessages == 2

(* str(uuid.uuid4()): the i-th identifier generated, never generated again. *)
Uuid(i) == IF i = 1 THEN "u1" ELSE IF i = 2 THEN "u2" ELSE IF i = 3 THEN "u3" ELSE "u4"

(* Session ids a caller can pass: the ones create_session has returned so  *)
(* far, the ones of the sessions that exist, and one that no               *)
(* create_session ever returns.                                            *)
CallerIds == {Uuid(i) : i \in 1..created} \cup DOMAIN chat_sessions \cup {"default"}

Titles == {None, "t1"}
Roles == {"user", "assistant"}

MessageRow(session_id, role) ==
    [session_id |-> session_id, role |-> role, content |-> <<"hi">>]

SessionDict(id) ==
    [id |-> id, title |-> chat_sessions[id].title,
     message_count |-> chat_sessions[id].message_count,
     model |-> chat_sessions[id].model, is_archived |-> chat_sessions[id].is_archived]

Slice(s, limit, offset) ==
    IF offset >= Len(s) THEN <<>>
    ELSE SubSeq(s, offset + 1, IF offset + limit < Len(s) THEN offset + limit ELSE Len(s))

get_sessions_IncludingArchived(limit, offset) ==
    LET page == Slice(session_order, limit, offset)
    IN  [i \in 1..Len(page) |-> SessionDict(page[i])]

get_sessions(limit, offset) ==
    LET active == SelectSeq(session_order, LAMBDA x : ~chat_sessions[x].is_archived)
        page == Slice(active, limit, offset)
    IN  [i \in 1..Len(page) |-> SessionDict(page[i])]

(* The None that get_session_by_id returns for an id without a row. *)
NoSession == [none |-> TRUE]

get_session_by_id(session_id) ==
    IF session_id \in DOMAIN chat_sessions THEN SessionDict(session_id) ELSE NoSession

get_messages(session_id, limit, offset) ==
    Slice(SelectSeq(db_messages, LAMBDA m : m.session_id = session_id), limit, offset)

get_message_count(session_id) ==
    Len(SelectSeq(db_messages, LAMBDA m : m.session_id = session_id))

(* A client can execute a write statement when no other client holds the   *)
(* write lock. A statement that finds the lock taken waits; it goes on     *)
(* when the lock is released in time and fails with "database is locked"   *)
(* when the connection's timeout (5 seconds) passes first.                 *)
CanWrite_Always(p) == p \in Procs

CanWrite(p) == write_lock \in {None, p}

(* The INSERT waits for the write lock; when another client keeps it past   *)
(* the timeout the except clause logs and re-raises, and no row is written.*)
create_session(p) ==
    /\ dbpc[p] = "idle"
    /\ IF CanWrite(p)
       THEN /\ created < MaxSessions
            /\ \E title \in Titles :
                LET session_id == Uuid(created + 1) IN
                /\ chat_sessions' = (session_id :> SessionRow(title, DeepSeek)) @@ chat_sessions
                /\ session_order' = <<session_id>> \o session_order
                /\ created' = created + 1
                /\ Returned("create_session", session_id, TRUE)
       ELSE /\ Raised("create_session", DatabaseLocked)
            /\ UNCHANGED <<chat_sessions, session_order, created>>
    /\ UNCHANGED <<op, cfg, grVars, preVars, chatVars, toolVars, db_messages, dbpc, txn,
                   write_lock>>

update_session_title(p) ==
    /\ dbpc[p] = "idle"
    /\ \E session_id \in CallerIds, title \in Titles \ {None} :
        IF ~CanWrite(p)
        THEN \* "database is locked": the except clause returns False
             /\ Returned("update_session_title", session_id, FALSE)
             /\ UNCHANGED <<chat_sessions, session_order>>
        ELSE IF session_id \in DOMAIN chat_sessions
        THEN /\ chat_sessions' = [chat_sessions EXCEPT ![session_id].title = title]
             /\ session_order' = Touch(session_order, session_id)
             /\ Returned("update_session_title", session_id, TRUE)
        ELSE /\ Returned("update_session_title", session_id, FALSE)
             /\ UNCHANGED <<chat_sessions, session_order>>
    /\ UNCHANGED <<op, cfg, grVars, preVars, chatVars, toolVars, db_messages, created, dbpc,
                   txn, write_lock>>

(* DELETE FROM chat_sessions WHERE id = ?: the rows of messages stay, the  *)
(* connection does not enforce the foreign key.                            *)
delete_session(p) ==
    /\ dbpc[p] = "idle"
    /\ \E session_id \in CallerIds :
        IF ~CanWrite(p)
        THEN \* "database is locked": the except clause returns False
             /\ Returned("delete_session", session_id, FALSE)
             /\ UNCHANGED <<chat_sessions, session_order>>
        ELSE IF session_id \in DOMAIN chat_sessions
        THEN /\ chat_sessions' = [x \in DOMAIN chat_sessions \ {session_id} |-> chat_sessions[x]]
             /\ session_order' = SelectSeq(session_order, LAMBDA x : x # session_id)
             /\ Returned("delete_session", session_id, TRUE)
        ELSE /\ Returned("delete_session", session_id, FALSE)
             /\ UNCHANGED <<chat_sessions, session_order>>
    /\ UNCHANGED <<op, cfg, grVars, preVars, chatVars, toolVars, db_messages, created, dbpc,
                   txn, write_lock>>

archive_session(p) ==
    /\ dbpc[p] = "idle"
    /\ \E session_id \in CallerIds :
        IF ~CanWrite(p)
        THEN \* "database is locked": the except clause returns False
             /\ Returned("archive_session", session_id, FALSE)
             /\ UNCHANGED <<chat_sessions, session_order>>
        ELSE IF session_id \in DOMAIN chat_sessions
        THEN /\ chat_sessions' = [chat_sessions EXCEPT ![session_id].is_archived = TRUE]
             /\ session_order' = Touch(session_order, session_id)
             /\ Returned("archive_session", session_id, TRUE)
        ELSE /\ Returned("archive_session", session_id, FALSE)
             /\ UNCHANGED <<chat_sessions, session_order>>
    /\ UNCHANGED <<op, cfg, grVars, preVars, chatVars, toolVars, db_messages, created, dbpc,
                   txn, write_lock>>

InFlight == Cardinality({p \in Procs : dbpc[p] # "idle"})

(* add_message, INSERT INTO messages: the implicit transaction begins and  *)
(* takes the write lock.                                                   *)
add_message_insert(p) ==
    /\ dbpc[p] = "idle"
    /\ CanWrite(p)
    /\ Len(db_messages) + InFlight < MaxDbMessages
    /\ \E session_id \in CallerIds, role \in Roles :
        txn' = [txn EXCEPT ![p] = [none |-> FALSE, row |-> MessageRow(session_id, role),
                                   updates |-> FALSE, message_count |-> 0]]
    /\ write_lock' = p
    /\ dbpc' = [dbpc EXCEPT ![p] = "inserted"]
    /\ UNCHANGED <<op, cfg, grVars, preVars, chatVars, toolVars, chat_sessions, session_order,
                   db_messages, created, lastOp>>

(* add_message, UPDATE chat_sessions SET message_count = message_count + 1 *)
(* WHERE id = ?: no row is updated when the session does not exist.        *)
add_message_update(p) ==
    /\ dbpc[p] = "inserted"
    /\ LET session_id == txn[p].row.session_id IN
       txn' = [txn EXCEPT ![p] =
                IF session_id \in DOMAIN chat_sessions
                THEN [@ EXCEPT !.updates = TRUE,
                               !.message_count =
                                    Incremented(chat_sessions[session_id].message_count)]
                ELSE @]
    /\ dbpc' = [dbpc EXCEPT ![p] = "updated"]
    /\ UNCHANGED <<op, cfg, grVars, preVars, chatVars, toolVars, chat_sessions, session_order,
                   db_messages, created, write_lock, lastOp>>

(* add_message, conn.commit() and return True. *)
add_message_commit(p) ==
    /\ dbpc[p] = "updated"
    /\ LET session_id == txn[p].row.session_id IN
       /\ db_messages' = Append(db_messages, txn[p].row)
       /\ IF txn[p].updates
          THEN /\ chat_sessions' = [chat_sessions EXCEPT
                                      ![session_id].message_count = txn[p].message_count]
               /\ session_order' = Touch(session_order, session_id)
          ELSE UNCHANGED <<chat_sessions, session_order>>
       /\ Returned("add_message", session_id, TRUE)
    /\ txn' = [txn EXCEPT ![p] = NoTxn]
    /\ write_lock' = IF write_lock = p THEN None ELSE write_lock
    /\ dbpc' = [dbpc EXCEPT ![p] = "idle"]
    /\ UNCHANGED <<op, cfg, grVars, preVars, chatVars, toolVars, created>>

(* add_message, an exception inside the with block: the connection rolls   *)
(* the transaction back and add_message returns False.                     *)
add_message_rollback(p) ==
    /\ dbpc[p] \in {"inserted", "updated"}
    /\ Returned("add_message", txn[p].row.session_id, FALSE)
    /\ txn' = [txn EXCEPT ![p] = NoTxn]
    /\ write_lock' = IF write_lock = p THEN None ELSE write_lock
    /\ dbpc' = [dbpc EXCEPT ![p] = "idle"]
    /\ UNCHANGED <<op, cfg, grVars, preVars, chatVars, toolVars, chat_sessions, session_order,
                   db_messages, created>>

(* add_message attempted while another client holds the write lock for     *)
(* longer than the connection timeout: "database is locked", the method    *)
(* returns False and nothing is written.                                   *)
write_times_out(p) ==
    /\ dbpc[p] = "idle"
    /\ ~CanWrite(p)
    /\ \E session_id \in CallerIds : Returned("add_message", session_id, FALSE)
    /\ UNCHANGED <<op, cfg, grVars, preVars, chatVars, toolVars, chat_sessions, session_order,
                   db_messages, created, dbpc, txn, write_lock>>

InitDB ==
    /\ op = "database"
    /\ cfg \in [siliconflow_api_key : {TRUE}, groq_api_key : {TRUE}, openai_api_key : {FALSE}]
    /\ GRIdle
    /\ PreIdle
    /\ ChatIdle
    /\ ToolIdle
    /\ DBIdle

NextDB ==
    \E p \in Procs :
        \/ create_session(p)
        \/ update_session_title(p)
        \/ delete_session(p)
        \/ archive_session(p)
        \/ add_message_insert(p)
        \/ add_message_update(p)
        \/ add_message_commit(p)
        \/ add_message_rollback(p)
        \/ write_times_out(p)

SpecDB == InitDB /\ [][NextDB]_vars

-----------------------------------------------------------------------------
(* The entry points together: op and the positions of the idle call frames *)
(* decide which actions an entry point can take.                           *)
Init == InitGR \/ InitPre \/ InitChatBody \/ InitTools \/ InitDB \/ InitSearch \/ InitUpload
Next == NextChat \/ handle_tool_calls \/ execute_tool_call \/ handle_tool_followup
        \/ handle_tool_return \/ handle_tool_result \/ NextDB \/ chat_with_search
        \/ chat_with_search_return \/ NextUpload
Spec == Init /\ [][Next]_vars

-----------------------------------------------------------------------------
(* get_response under weak fairness: a call that can take a step takes it. *)
LiveGR == InitGR /\ [][NextGR]_vars /\ WF_vars(NextGR)

CallDone == grpc = "done"
IsFailure(outcome) == outcome \in {"timeout", "connection_error", "other_error"}
RetriesExhausted ==
    /\ Len(outcomes) = max_retries
    /\ \A i \in 1..Len(outcomes) : IsFailure(outcomes[i])
LastOutcome == outcomes[Len(outcomes)]
Has(r, k) == k \in DOMAIN r

-----------------------------------------------------------------------------
(* C1: in a SiliconFlow call only a timeout or a connection error causes   *)
(* another attempt; an attempt that raises any other exception is the last *)
(* one and the call ends at once with a success=false result.              *)
C1_OtherExceptionEndsCall ==
    \A i \in 1..Len(outcomes) :
        outcomes[i] = "other_error" =>
            /\ i = Len(outcomes)
            /\ CallDone
            /\ grResult = Failure(<<"SiliconFlow API error: ", "other_error">>)

(* C2 as stated: whenever every SiliconFlow attempt of a call has failed   *)
(* and the retries are exhausted, the Groq fallback has been invoked       *)
(* exactly once by the time the call returns, whatever the failure kinds.  *)
C2_FallbackAfterAnyExhaustion ==
    (CallDone /\ RetriesExhausted) => fallbackCalls = 1

(* C2 amended: the fallback is invoked exactly once, with one Groq request *)
(* at most and no retry, when the last of the max_retries attempts failed  *)
(* with a timeout or a connection error; when the last attempt failed with *)
(* any other exception the call returns a failure without the fallback.    *)
(* The fallback is never invoked in any other situation.                   *)
C2_FallbackAfterFinalTimeoutOrConnectionError ==
    /\ fallbackCalls <= 1
    /\ fallbackCalls = 1 =>
            /\ RetriesExhausted
            /\ LastOutcome \in {"timeout", "connection_error"}
            /\ dispatched[Len(dispatched)] = [provider |-> "groq", model |-> Scout]
    /\ (CallDone /\ RetriesExhausted) =>
            IF LastOutcome \in {"timeout", "connection_error"}
            THEN /\ fallbackCalls = 1
                 /\ RequestsTo("groq") <= 1
                 /\ RequestsTo("groq") = 0 => ~cfg.groq_api_key
            ELSE /\ fallbackCalls = 0
                 /\ RequestsTo("groq") = 0
                 /\ grResult = Failure(<<"SiliconFlow API error: ", "other_error">>)

C2_Witness ==
    /\ CallDone
    /\ outcomes = <<"other_error", "connection_error">>
    /\ fallbackCalls = 1
    /\ RequestsTo("groq") = 1
    /\ ~grResult["success"]

AllAttemptsTimedOut ==
    /\ Len(outcomes) = max_retries
    /\ \A i \in 1..Len(outcomes) : outcomes[i] = "timeout"

(* C3 as stated: when SiliconFlow times out on every attempt, the result   *)
(* of get_response carries provider "groq" and the fallback model id.      *)
C3_ResultCarriesGroqProvider ==
    (CallDone /\ AllAttemptsTimedOut) =>
        /\ Has(grResult, "provider") /\ grResult["provider"] = "groq"
        /\ Has(grResult, "model") /\ grResult["model"] = Scout

(* C3 amended: when SiliconFlow times out on every attempt, the result is  *)
(* the fallback call's: if that call succeeds it carries provider "groq"   *)
(* and the fallback model id; if it fails it is a success=false result     *)
(* with no provider and no model field. It never carries provider          *)
(* "siliconflow" or the requested model.                                   *)
C3_ResultIsTheFallbackCalls ==
    (CallDone /\ AllAttemptsTimedOut) =>
        /\ IF grResult["success"]
           THEN grResult["provider"] = "groq" /\ grResult["model"] = Scout
           ELSE ~Has(grResult, "provider") /\ ~Has(grResult, "model")
        /\ Has(grResult, "provider") => grResult["provider"] # "siliconflow"
        /\ Has(grResult, "model") => grResult["model"] # grRequested

C3_Witness ==
    /\ CallDone
    /\ AllAttemptsTimedOut
    /\ grResult["success"]
    /\ grResult["provider"] = "groq"
    /\ grRequested = Qwen

(* C4: whatever the attempts do, one get_response call sends at most 2     *)
(* requests to SiliconFlow and at most 1 to Groq, and it terminates with a *)
(* result.                                                                 *)
C4_BoundedRequestsAndTermination ==
    /\ [](RequestsTo("siliconflow") <= 2 /\ RequestsTo("groq") <= 1)
    /\ <>(CallDone /\ Has(grResult, "success"))

C4_Witness ==
    /\ CallDone
    /\ RequestsTo("siliconflow") = 2
    /\ RequestsTo("groq") = 1
    /\ Has(grResult, "success")

RequestedLacksImageSupport(model) ==
    /\ get_model_info(model) # NoModelInfo
    /\ ~get_model_info(model).supports_image

(* C5: for a registered model without image support and a message list in *)
(* which some message carries an image, get_response dispatches to the     *)
(* image-capable default (llama-4-scout on groq), every request it sends   *)
(* goes there, and the provider/model fields it returns name that model,   *)
(* not the requested one. A successful result always has both fields; the  *)
(* failure result of the Groq call has neither.                            *)
C5_ImageOverridesToMultimodalDefault ==
    (RequestedLacksImageSupport(grRequested) /\ has_image_content(grMessages) /\ grpc # "call") =>
        /\ dispatched = << [provider |-> "groq", model |-> Scout] >>
        /\ get_model_info(dispatched[1].model).supports_image
        /\ \A i \in 1..Len(sent) : sent[i].provider = "groq" /\ sent[i].model = Scout
        /\ CallDone =>
            /\ grResult["success"] =>
                    grResult["provider"] = "groq" /\ grResult["model"] = Scout
            /\ Has(grResult, "provider") => grResult["provider"] = "groq"
            /\ Has(grResult, "model") => grResult["model"] = Scout /\ grResult["model"] # grRequested

C5_Witness ==
    /\ CallDone
    /\ grRequested = DeepSeek
    /\ Len(grMessages) = 2
    /\ ~Truthy(grMessages[1], "image")
    /\ Truthy(grMessages[2], "image")
    /\ grResult["success"]
    /\ grResult["model"] = Scout

TurnHasAudioOrVideoButNoImage ==
    /\ \E i \in 1..Len(req["messages"]) :
            Truthy(req["messages"][i], "audio") \/ Truthy(req["messages"][i], "video")
    /\ \A i \in 1..Len(req["messages"]) : ~Truthy(req["messages"][i], "image")

(* C6: in a /api/chat turn whose conversation carries audio or video but   *)
(* no image and whose requested model lacks image support, every provider  *)
(* call of the turn is dispatched to the multimodal default                *)
(* (llama-4-scout on groq), whatever transcription and frame extraction do.*)
C6_AudioVideoTurnUsesMultimodalDefault ==
    IF req = EmptyDict THEN TRUE
    ELSE (TurnHasAudioOrVideoButNoImage /\ RequestedLacksImageSupport(req["model"])) =>
            \A i \in 1..Len(modelCalls) :
                modelCalls[i].dispatched[1] = [provider |-> "groq", model |-> Scout]

Registered(model) == \E i \in 1..Len(AVAILABLE_MODELS) : AVAILABLE_MODELS[i].id = model

UnknownModelRequest ==
    /\ req # EmptyDict
    /\ req["messages"] # <<>>
    /\ ~Registered(req["model"])

(* C7: get_response with a model id that is not in the registry returns    *)
(* success=false with an error naming the model and sends no request to    *)
(* any provider; the /api/chat request answers success:false with an error *)
(* status, performs no search and stores no message.                       *)
C7_UnknownModelFailsWithoutSideEffects ==
    /\ (CallDone /\ ~Registered(grRequested)) =>
            /\ grResult = Failure(<<"unknown model: ", grRequested>>)
            /\ sent = <<>>
            /\ dispatched = <<>>
    /\ IF req # EmptyDict /\ UnknownModelRequest
       THEN /\ searches = <<>>
            /\ stored = <<>>
            /\ \A i \in 1..Len(modelCalls) :
                    /\ modelCalls[i].sent = <<>>
                    /\ modelCalls[i].result = Failure(<<"unknown model: ", req["model"]>>)
            /\ cpc = "done" =>
                    /\ Len(modelCalls) = 1
                    /\ httpResponse.status \in 400..599
                    /\ httpResponse.body["success"] = FALSE
                    /\ Has(httpResponse.body, "error")
       ELSE TRUE

C7_Witness ==
    /\ cpc = "done"
    /\ UnknownModelRequest
    /\ req["session_id"] = "s1"
    /\ req["enable_search"]
    /\ LastUserIndex(messages) # 0
    /\ Len(modelCalls) = 1
    /\ httpResponse.status = 500

(* C8: every message returned by _preprocess_multimedia_messages, whatever *)
(* its role, has no audio field and no video field.                        *)
C8_OutputHasNoAudioOrVideoField ==
    \A i \in 1..Len(processed_messages) :
        ~Has(processed_messages[i], "audio") /\ ~Has(processed_messages[i], "video")

AudioOnlyNoText(m) ==
    /\ Truthy(m, "audio")
    /\ ~Has(m, "image")
    /\ ~Has(m, "video")
    /\ strip_empty(GetText(m))

(* C9: a message that carries an audio attachment, no other attachment    *)
(* and no text comes out with a non-empty text and without the audio       *)
(* field, whatever the transcription calls do (text, empty text, failure   *)
(* then Whisper, both failing, or raising).                                *)
C9_AudioOnlyMessageGetsText ==
    \A i \in 1..Len(processed_messages) :
        AudioOnlyNoText(pArg.list[i]) =>
            /\ processed_messages[i]["text"] # <<>>
            /\ ~strip_empty(processed_messages[i]["text"])
            /\ ~Has(processed_messages[i], "audio")

GroqFailed    == [fn |-> "transcribe_audio_with_groq", outcome |-> "fail"]
WhisperFailed == [fn |-> "transcribe_audio", outcome |-> "fail"]

(* Occurrences of the all-transcription-failed note (line 1271) in the     *)
(* notes collected so far and in the texts already produced.               *)
FailedNoteCount ==
    Cardinality({j \in 1..Len(additional_text) : additional_text[j] = AllTranscriptionFailedNote})
    + Cardinality(UNION {{<<i, k>> : k \in {n \in 1..Len(processed_messages[i]["text"]) :
                                processed_messages[i]["text"][n] = AllTranscriptionFailedNote[1]}} :
                         i \in 1..Len(processed_messages)})

(* C10: Whisper (transcribe_audio) is called only directly after the Groq  *)
(* transcription of the same audio returned a failure, never after Groq    *)
(* returned success; the "rely on the user's text description" note is     *)
(* appended exactly when both calls returned a failure.                    *)
C10_WhisperOnlyAfterGroqFailure ==
    /\ \A j \in 1..Len(calls) :
            calls[j].fn = "transcribe_audio" => (j > 1 /\ calls[j - 1] = GroqFailed)
    /\ \A j \in 1..Len(calls) :
            (calls[j].fn = "transcribe_audio_with_groq" /\ calls[j].outcome \in {"ok_text", "ok_empty"})
                => (j = Len(calls) \/ calls[j + 1].fn # "transcribe_audio")
    /\ ppc = "audio_whisper" => (calls # <<>> /\ calls[Len(calls)] = GroqFailed)
    /\ FailedNoteCount = Cardinality({j \in 1..Len(calls) : calls[j] = WhisperFailed})

C10_Witness ==
    /\ ppc = "done"
    /\ calls = <<GroqFailed, WhisperFailed>>
    /\ FailedNoteCount = 1
    /\ cfg.groq_api_key
    /\ cfg.openai_api_key

-----------------------------------------------------------------------------
(* The frame extractions made so far, in order, and the one made for the   *)
(* i-th message of the list (a user message with a video).                 *)
ExtractCalls == SelectSeq(calls, LAMBDA c : c.fn = "extract_video_frames")
IsUserVideo(m) == IsUserMessage(m) /\ Truthy(m, "video")
ExtractOutcomeFor(i) ==
    ExtractCalls[Cardinality({j \in 1..i : IsUserVideo(pArg.list[j])})].outcome

(* C11: for a user message with a video, when frame extraction returns at  *)
(* least one frame the output image is the first extracted frame (a        *)
(* data:image/ URI); when it fails or raises the output image is exactly   *)
(* the caller's image if there was one and is absent otherwise; the video  *)
(* field is gone in both cases.                                            *)
C11_VideoImageIsFirstFrameOrOriginal ==
    \A i \in 1..Len(processed_messages) :
        IsUserVideo(pArg.list[i]) =>
            LET m == pArg.list[i]
                out == processed_messages[i]
                outcome == ExtractOutcomeFor(i)
            IN  /\ ~Has(out, "video")
                /\ outcome = "ok_frames" => (Has(out, "image") /\ out["image"] = Frame1)
                /\ outcome \in {"fail", "raise"} =>
                        IF Has(m, "image") THEN Has(out, "image") /\ out["image"] = m["image"]
                        ELSE ~Has(out, "image")

C11_Witness ==
    /\ ppc = "done"
    /\ Len(pArg.list) = 2
    /\ pArg.list[1] = Attach([role |-> "user", text |-> <<"hi">>], {"image", "video"})
    /\ pArg.list[2] = Attach([role |-> "user", text |-> <<>>], {"video"})
    /\ ExtractCalls = << [fn |-> "extract_video_frames", outcome |-> "ok_frames"],
                         [fn |-> "extract_video_frames", outcome |-> "raise"] >>
    /\ processed_messages[1]["image"] = Frame1
    /\ MediaValue("image") # Frame1
    /\ ~Has(processed_messages[2], "image")

-----------------------------------------------------------------------------
TextOnly(m) == DOMAIN m = {"role", "text"}
PreprocessReturned == op = "preprocess" /\ ppc = "done"

(* C12: for a message list whose messages carry only role and text,        *)
(* _preprocess_multimedia_messages returns the messages in the same number *)
(* and order, each with its input text and role and with no image, audio   *)
(* or video field, and calls no transcription or frame extraction; for     *)
(* None or an empty list it returns the empty list.                        *)
C12_TextOnlyListIsReturnedUnchanged ==
    PreprocessReturned =>
        /\ (pArg.none \/ pArg.list = <<>>) => processed_messages = <<>>
        /\ (~pArg.none /\ \A i \in 1..Len(pArg.list) : TextOnly(pArg.list[i])) =>
                /\ Len(processed_messages) = Len(pArg.list)
                /\ \A i \in 1..Len(pArg.list) :
                        /\ processed_messages[i]["text"] = pArg.list[i]["text"]
                        /\ processed_messages[i]["role"] = pArg.list[i]["role"]
                        /\ DOMAIN processed_messages[i] = {"role", "text"}
                /\ calls = <<>>

C12_Witness ==
    /\ PreprocessReturned
    /\ pArg.list = << [role |-> "assistant", text |-> <<"hi">>], [role |-> "user", text |-> <<>>] >>
    /\ processed_messages = pArg.list

-----------------------------------------------------------------------------
(* A /api/chat request that passed validation with enable_search true.     *)
TwoPass ==
    /\ op = "chat"
    /\ req # EmptyDict
    /\ req["messages"] # <<>>
    /\ req["enable_search"]

(* The response chat() has decided on: while the handler is saving the     *)
(* turn, the one it returns afterwards.                                    *)
(* The state of the two-pass state machine the request is in. SEARCH_FAILED *)
(* is passed through inside the step from SEARCH_REQUESTED to              *)
(* FALLBACK_MESSAGE.                                                       *)
ChatAnswer == IF cpc = "save" THEN saving.reply ELSE httpResponse

TwoPassState ==
    IF cpc \in {"request", "preprocess"} THEN "NOT_STARTED"
    ELSE IF cpc = "judgement" THEN "AWAITING_JUDGEMENT"
    ELSE IF cpc = "search" THEN "SEARCH_REQUESTED"
    ELSE IF cpc = "final" THEN "SEARCH_OK"
    ELSE IF ChatAnswer.status = 200
         THEN IF Has(ChatAnswer.body, "search_failed") THEN "FALLBACK_MESSAGE"
              ELSE IF ChatAnswer.body["search_performed"] THEN "FINAL_ANSWER"
              ELSE "DIRECT_ANSWER"
         ELSE IF modelCalls[Len(modelCalls)].result["success"] THEN "UNEXPECTED"
              ELSE IF Len(modelCalls) = 1 THEN "JUDGEMENT_FAILED" ELSE "FINAL_CALL_FAILED"

TwoPassDone == TwoPass /\ cpc = "done"

JudgementAskedForSearch ==
    /\ modelCalls # <<>>
    /\ modelCalls[1].result["success"]
    /\ modelCalls[1].result["response"] # <<>>
    /\ modelCalls[1].result["response"][1] = SEARCH_REQUIRED

(* C13 as stated: every two-pass request ends in DIRECT_ANSWER,            *)
(* FINAL_ANSWER or FALLBACK_MESSAGE; there is no other terminal state.     *)
C13_OnlyThreeTerminalStates ==
    TwoPassDone => TwoPassState \in {"DIRECT_ANSWER", "FINAL_ANSWER", "FALLBACK_MESSAGE"}

TwoPassTransitions ==
    { <<"NOT_STARTED", "AWAITING_JUDGEMENT">>,
      <<"AWAITING_JUDGEMENT", "DIRECT_ANSWER">>,
      <<"AWAITING_JUDGEMENT", "SEARCH_REQUESTED">>,
      <<"AWAITING_JUDGEMENT", "JUDGEMENT_FAILED">>,
      <<"SEARCH_REQUESTED", "SEARCH_OK">>,
      <<"SEARCH_REQUESTED", "FALLBACK_MESSAGE">>,
      <<"SEARCH_OK", "FINAL_ANSWER">>,
      <<"SEARCH_OK", "FINAL_CALL_FAILED">> }

TwoPassTerminalIsConsistent ==
    TwoPassDone =>
        /\ TwoPassState \in {"DIRECT_ANSWER", "FINAL_ANSWER", "FALLBACK_MESSAGE",
                             "JUDGEMENT_FAILED", "FINAL_CALL_FAILED"}
        /\ TwoPassState = "DIRECT_ANSWER" =>
                Len(modelCalls) = 1 /\ searches = <<>> /\ ~JudgementAskedForSearch
        /\ TwoPassState = "FINAL_ANSWER" =>
                /\ Len(modelCalls) = 2 /\ JudgementAskedForSearch
                /\ Len(searches) = 1 /\ searches[1].success
        /\ TwoPassState = "FALLBACK_MESSAGE" =>
                /\ Len(modelCalls) = 1 /\ JudgementAskedForSearch
                /\ Len(searches) = 1 /\ ~searches[1].success
        /\ TwoPassState = "JUDGEMENT_FAILED" =>
                Len(modelCalls) = 1 /\ searches = <<>> /\ httpResponse.status = 500
        /\ TwoPassState = "FINAL_CALL_FAILED" =>
                /\ Len(modelCalls) = 2 /\ JudgementAskedForSearch
                /\ Len(searches) = 1 /\ searches[1].success /\ httpResponse.status = 500

(* C13 amended: a two-pass request ends in exactly one of DIRECT_ANSWER,   *)
(* FINAL_ANSWER, FALLBACK_MESSAGE or an error response (status 500) given  *)
(* when the judgement call or the call after the search returns a failure; *)
(* the states are reached only along AWAITING_JUDGEMENT -> DIRECT_ANSWER,  *)
(* AWAITING_JUDGEMENT -> SEARCH_REQUESTED -> SEARCH_OK -> FINAL_ANSWER,    *)
(* AWAITING_JUDGEMENT -> SEARCH_REQUESTED -> SEARCH_FAILED ->              *)
(* FALLBACK_MESSAGE, AWAITING_JUDGEMENT -> error and SEARCH_OK -> error,   *)
(* and a terminal state is never left.                                     *)
C13_TerminalStatesIncludeErrors ==
    /\ [](TwoPassTerminalIsConsistent)
    /\ [][TwoPass => (TwoPassState' = TwoPassState
                      \/ <<TwoPassState, TwoPassState'>> \in TwoPassTransitions)]_vars

C13_Witness ==
    /\ TwoPassDone
    /\ TwoPassState = "FINAL_CALL_FAILED"
    /\ httpResponse.body["success"] = FALSE

-----------------------------------------------------------------------------
(* text contains block as a contiguous part *)
Contains(text, block) ==
    \E i \in 1..(Len(text) - Len(block) + 1) : SubSeq(text, i, i + Len(block) - 1) = block

(* The query q that follows the sentinel in the judgement, trimmed. *)
SentinelQuery == Strip(Tail(modelCalls[1].result["response"]))

SentinelWithQuery == TwoPass /\ JudgementAskedForSearch /\ SentinelQuery # <<>>

(* C14: when the judgement is the sentinel followed by a query q, exactly  *)
(* one web search is issued, with q trimmed; if it succeeds the model is   *)
(* called a second time with the normalized conversation followed by the   *)
(* synthetic messages, the last of which holds the formatted search block, *)
(* that block reaches the provider in every request of the second call,    *)
(* and the response given to the client is the second call's response.     *)
C14_SentinelLeadsToOneSearchAndSecondCall ==
    SentinelWithQuery =>
        /\ Len(searches) <= 1
        /\ Len(modelCalls) <= 2
        /\ cpc \in {"final", "done"} =>
                /\ Len(searches) = 1
                /\ searches[1].issued
                /\ searches[1].query = SentinelQuery
        /\ (cpc = "final" /\ grpc # "idle") =>
                /\ searches[1].success
                /\ grMessages = processed_messages
                                \o <<NeedSearchMessage(SentinelQuery),
                                     SearchResultMessage(SearchBlock(SentinelQuery))>>
                /\ Contains(grMessages[Len(grMessages)]["text"], SearchBlock(SentinelQuery))
                /\ \A i \in 1..Len(sent) :
                        Contains(sent[i].messages[Len(sent[i].messages)].content,
                                 SearchBlock(SentinelQuery))
        /\ (cpc = "done" /\ searches[1].success) =>
                /\ Len(modelCalls) = 2
                /\ modelCalls[2].messages = processed_messages
                                \o <<NeedSearchMessage(SentinelQuery),
                                     SearchResultMessage(SearchBlock(SentinelQuery))>>
                /\ modelCalls[2].system_prompt = req["system_prompt"]
                /\ modelCalls[2].result["success"] =>
                        /\ httpResponse.status = 200
                        /\ httpResponse.body["response"] = modelCalls[2].result["response"]
                        /\ httpResponse.body["search_performed"]
                        /\ httpResponse.body["search_query"] = SentinelQuery

C14_Witness ==
    /\ TwoPassDone
    /\ SentinelWithQuery
    /\ modelCalls[1].result["response"] = <<SEARCH_REQUIRED, " ", "gold price">>
    /\ searches = << [query |-> <<"gold price">>, issued |-> TRUE, success |-> TRUE] >>
    /\ Len(modelCalls) = 2
    /\ modelCalls[2].sent # <<>>
    /\ httpResponse.body["success"]
    /\ httpResponse.body["response"] = <<"answer">>

-----------------------------------------------------------------------------
(* The search asked for by the sentinel failed, or there was no query      *)
(* after the prefix.                                                       *)
SentinelSearchFailed ==
    /\ TwoPass
    /\ searches # <<>>
    /\ (~searches[1].success \/ searches[1].query = <<>>)

(* C15: in two-pass mode, when the search asked for by the sentinel fails  *)
(* (an empty query after the prefix included), no second model call is     *)
(* made and the request returns success with the static fallback message,  *)
(* with search_attempted and search_failed set (the handler is saving the  *)
(* turn or has returned, and that is the response it returns).             *)
C15_FailedSearchGivesFallbackMessage ==
    SentinelSearchFailed =>
        /\ ~searches[1].success
        /\ Len(searches) = 1
        /\ Len(modelCalls) = 1
        /\ cpc \in {"save", "done"}
        /\ ChatAnswer.status = 200
        /\ ChatAnswer.body["success"]
        /\ ChatAnswer.body["response"] = SearchUnavailable(searches[1].query)
        /\ ChatAnswer.body["search_failed"]
        /\ ChatAnswer.body["search_attempted"]
        /\ ~Has(ChatAnswer.body, "search_performed")
        /\ ChatAnswer.body["response"] # modelCalls[1].result["response"]

C15_Witness ==
    /\ SentinelSearchFailed
    /\ cpc = "done"
    /\ searches = << [query |-> <<>>, issued |-> FALSE, success |-> FALSE] >>
    /\ modelCalls[1].result["response"] = <<SEARCH_REQUIRED, " ">>
    /\ httpResponse.body["search_failed"]

-----------------------------------------------------------------------------
(* A /api/chat request that passed validation with the flag enable_search  *)
(* false, the strategy that is not the two-pass one.                       *)
NotTwoPass ==
    /\ op = "chat"
    /\ req # EmptyDict
    /\ req["messages"] # <<>>
    /\ ~req["enable_search"]

(* C16: the flag of the /api/chat request selects between the two-pass     *)
(* strategy and the tool-calling strategy, and when the tool-calling       *)
(* strategy is selected every provider request of the turn carries the     *)
(* available-tools list.                                                   *)
C16_ToolCallingStrategyCarriesTools ==
    NotTwoPass =>
        /\ \A j \in 1..Len(sent) : sent[j].tools
        /\ \A i \in 1..Len(modelCalls) :
                \A j \in 1..Len(modelCalls[i].sent) : modelCalls[i].sent[j].tools

-----------------------------------------------------------------------------
(* C17 *)
HandlingToolCalls == op = "handle_tool_calls" /\ hArg.result["tool_calls"] # <<>>

(* The tool calls ran once each, in the order the provider gave them. *)
ExecutedInOrder ==
    LET tcs == hArg.result["tool_calls"] IN
    /\ Len(executions) = Len(tcs)
    /\ \A i \in 1..Len(tcs) : executions[i].id = tcs[i].id

(* What the claim expects at the end of a follow-up request: the            *)
(* assistant's tool-call message, then one role=tool message per call.      *)
CarriesToolTranscript(request) ==
    LET tcs == hArg.result["tool_calls"]
        n == Len(tcs)
        ms == request.messages
        base == Len(ms) - n - 1
    IN  /\ base >= Len(hArg.messages)
        /\ ms[base + 1].role = "assistant"
        /\ "tool_calls" \in DOMAIN ms[base + 1]
        /\ ms[base + 1]["tool_calls"] = tcs
        /\ \A i \in 1..n :
            /\ ms[base + 1 + i].role = "tool"
            /\ "tool_call_id" \in DOMAIN ms[base + 1 + i]
            /\ ms[base + 1 + i]["tool_call_id"] = tcs[i].id
            /\ ms[base + 1 + i].content = ToolContent(executions[i].result)

(* C17: given a provider result requesting n >= 1 tool calls, every call   *)
(* is executed once in order before the single follow-up call, and each    *)
(* request of the follow-up carries the assistant's tool-call message and  *)
(* the n role=tool messages with their tool_call_id and serialized result. *)
C17_FollowUpRequestCarriesToolTranscript ==
    (HandlingToolCalls /\ hpc \in {"await", "save", "done"} /\ grpc # "idle") =>
        /\ ExecutedInOrder
        /\ \A k \in 1..Len(sent) : CarriesToolTranscript(sent[k])

-----------------------------------------------------------------------------
(* C18 *)
HasResponseText(r) == "response" \in DOMAIN r

RequiresToolExecution(r) ==
    /\ "requires_tool_execution" \in DOMAIN r
    /\ r["requires_tool_execution"] = TRUE
    /\ "tool_calls" \in DOMAIN r
    /\ r["tool_calls"] # <<>>

UniformEnvelope(r) ==
    /\ "success" \in DOMAIN r
    /\ IF r["success"]
       THEN /\ {"provider", "model"} \subseteq DOMAIN r
            /\ HasResponseText(r) # RequiresToolExecution(r)
            /\ HasResponseText(r) => "tool_calls" \notin DOMAIN r
       ELSE /\ "error" \in DOMAIN r
            /\ r["error"] # <<>>
            /\ "response" \notin DOMAIN r

(* C18: every result a provider call returns is a success with provider,   *)
(* model and exactly one of a response text or requires_tool_execution     *)
(* with non-empty tool_calls, or a failure with an error and no response.  *)
C18_ProviderResultHasUniformEnvelope ==
    grResult # NoResult => UniformEnvelope(grResult)

C18_Witness ==
    /\ grpc = "done"
    /\ Len(sent) >= 1
    /\ grResult["success"]
    /\ RequiresToolExecution(grResult)

-----------------------------------------------------------------------------
(* C19 *)
ChatDone == op = "chat" /\ cpc = "done"
ChatSucceeded == ChatDone /\ httpResponse.status = 200 /\ httpResponse.body["success"]
ChatFailed == ChatDone /\ ~(httpResponse.status = 200 /\ httpResponse.body["success"])
WithSession == req # EmptyDict /\ req["session_id"] # None
HasUserMessage == LastUserIndex(messages) # 0

SavedUserRow(row) ==
    /\ HasUserMessage
    /\ row = UserRow(req["session_id"], messages[LastUserIndex(messages)], req["model"])

SavedAssistantRow(row) ==
    /\ row.role = "assistant"
    /\ row.session_id = req["session_id"]
    /\ row.content = ChatAnswer.body["response"]
    /\ row.content_type = "text"

FullPair ==
    /\ Len(stored) = 2
    /\ SavedUserRow(stored[1])
    /\ SavedAssistantRow(stored[2])

(* C19 as stated: a successful request with a session_id appends exactly   *)
(* one user row and then one assistant row; a failed request appends none. *)
C19_ExactlyOnePairPerSuccessfulTurn ==
    /\ (ChatSucceeded /\ WithSession) => FullPair
    /\ ChatFailed => stored = <<>>

(* The rows of the turn appended so far: none, one of the two, or the user *)
(* row followed by the assistant row.                                      *)
PartOfPair ==
    \/ stored = <<>>
    \/ Len(stored) = 1 /\ (SavedUserRow(stored[1]) \/ SavedAssistantRow(stored[1]))
    \/ FullPair

(* The tables hold what the request appended: its rows are the rows of     *)
(* messages, and the session row, when there is one, counts them.          *)
TablesHoldStored ==
    /\ db_messages = stored
    /\ \A id \in DOMAIN chat_sessions : chat_sessions[id].message_count = get_message_count(id)
    /\ stored # <<>> => get_message_count(req["session_id"]) = Len(stored)

(* C19 amended: the pair is saved for a successful request with a          *)
(* session_id and a user-role message, the user row in one transaction and *)
(* then the assistant row in another, each row unless its add_message      *)
(* fails; the rows are in the messages table and counted in the session's  *)
(* message_count when the session exists; a request without a user-role    *)
(* message, without a session_id or ending in an error appends nothing,    *)
(* and nothing is appended before the answer of the turn is decided.       *)
C19_AtMostOnePairInOrder ==
    /\ (ChatSucceeded /\ WithSession /\ HasUserMessage) => PartOfPair
    /\ (ChatSucceeded /\ ~(WithSession /\ HasUserMessage)) => stored = <<>>
    /\ ChatFailed => stored = <<>>
    /\ (op = "chat" /\ cpc = "save") => (WithSession /\ HasUserMessage /\ PartOfPair)
    /\ (op = "chat" /\ cpc \notin {"save", "done"}) => stored = <<>>
    /\ op = "chat" => TablesHoldStored

C19_Witness ==
    /\ ChatSucceeded
    /\ WithSession
    /\ Len(modelCalls) = 2
    /\ Len(searches) = 1
    /\ FullPair
    /\ db_messages = stored
    /\ req["session_id"] \in DOMAIN chat_sessions
    /\ chat_sessions[req["session_id"]].message_count = 2

-----------------------------------------------------------------------------
(* C20 *)
(* _save_chat_messages ran: the last model call succeeded, on each of the  *)
(* four paths that save.                                                   *)
SaveAttempted ==
    /\ ChatDone
    /\ WithSession
    /\ HasUserMessage
    /\ modelCalls # <<>>
    /\ modelCalls[Len(modelCalls)].result["success"]

StoreFailed == SaveAttempted /\ Len(stored) < 2

(* The answer of the turn as the model calls and the search determine it. *)
TurnAnswer ==
    IF searches # <<>> /\ ~searches[1].success
    THEN SearchUnavailable(search_query)
    ELSE modelCalls[Len(modelCalls)].result["response"]

(* C20: when storing the user or the assistant message fails, the response *)
(* is still the 200 success response carrying the turn's answer.           *)
C20_StorageFailureLeavesResponseUnchanged ==
    StoreFailed =>
        /\ httpResponse.status = 200
        /\ httpResponse.body["success"] = TRUE
        /\ httpResponse.body["response"] = TurnAnswer
        /\ httpResponse.body["session_id"] = req["session_id"]

C20_Witness ==
    /\ StoreFailed
    /\ stored = <<>>
    /\ httpResponse.status = 200
    /\ httpResponse.body["response"] = TurnAnswer

-----------------------------------------------------------------------------
(* C28 *)
(* C28: after any sequence of create_session, add_message,                 *)
(* update_session_title and archive_session calls, every existing          *)
(* session's message_count equals the number of stored messages of that    *)
(* session, which is what get_message_count returns.                       *)
C28_MessageCountEqualsStoredMessages ==
    \A session_id \in DOMAIN chat_sessions :
        /\ chat_sessions[session_id].message_count = get_message_count(session_id)
        /\ get_session_by_id(session_id).message_count = get_message_count(session_id)

C28_Witness ==
    /\ lastOp = [name |-> "add_message", id |-> Uuid(1), ok |-> TRUE, raised |-> None]
    /\ Uuid(1) \in DOMAIN chat_sessions
    /\ chat_sessions[Uuid(1)].message_count = 2
    /\ chat_sessions[Uuid(1)].title = "t1"
    /\ chat_sessions[Uuid(1)].is_archived
    /\ get_message_count(Uuid(1)) = 2

-----------------------------------------------------------------------------
(* C21 *)
DeleteReturnedTrue == lastOp.name = "delete_session" /\ lastOp.ok

(* C21: after delete_session(id) returned True the session is gone and no  *)
(* message of it remains: get_session_by_id(id) is None, get_messages(id)  *)
(* is empty and get_message_count(id) is 0.                                *)
C21_DeleteCascadesToMessages ==
    DeleteReturnedTrue =>
        /\ get_session_by_id(lastOp.id) = NoSession
        /\ get_messages(lastOp.id, 100, 0) = <<>>
        /\ get_message_count(lastOp.id) = 0

-----------------------------------------------------------------------------
(* C22 *)
ArchiveLimits == {0, 1, 2, 50}
ArchiveOffsets == {0, 1}

Listed(session_id) ==
    \E limit \in ArchiveLimits, offset \in ArchiveOffsets :
        \E i \in 1..Len(get_sessions(limit, offset)) :
            get_sessions(limit, offset)[i].id = session_id

AllSessionIds == {Uuid(i) : i \in 1..MaxSessions} \cup {"default"}

(* A step in which some client's archive_session call returns, with True,  *)
(* or with False for an id without a row or for a locked database.         *)
ArchiveStep == \E p \in Procs : archive_session(p)

(* C22: a successful archive_session(id) removes the session from every    *)
(* get_sessions listing, get_session_by_id(id) still returns it with       *)
(* is_archived true and its title, model, message_count and messages       *)
(* unchanged; archiving a nonexistent id returns False and changes nothing.*)
C22_ArchiveIsASoftFlag ==
    [][ArchiveStep =>
        \A session_id \in AllSessionIds : lastOp'.id = session_id =>
        /\ session_id \notin DOMAIN chat_sessions => ~lastOp'.ok
        /\ IF lastOp'.ok
           THEN /\ session_id \in DOMAIN chat_sessions
                /\ ~Listed(session_id)'
                /\ get_session_by_id(session_id)' # NoSession
                /\ get_session_by_id(session_id)'.is_archived
                /\ get_session_by_id(session_id)'.title = get_session_by_id(session_id).title
                /\ get_session_by_id(session_id)'.model = get_session_by_id(session_id).model
                /\ get_session_by_id(session_id)'.message_count
                       = get_session_by_id(session_id).message_count
                /\ db_messages' = db_messages
                /\ \A other \in DOMAIN chat_sessions \ {session_id} :
                       chat_sessions'[other] = chat_sessions[other]
           ELSE /\ chat_sessions' = chat_sessions
                /\ session_order' = session_order
                /\ db_messages' = db_messages
    ]_vars

C22_Witness ==
    /\ lastOp.name = "archive_session"
    /\ lastOp.ok
    /\ chat_sessions[lastOp.id].is_archived
    /\ chat_sessions[lastOp.id].message_count = 2
    /\ chat_sessions[lastOp.id].title = "t1"
    /\ ~Listed(lastOp.id)
    /\ Len(get_sessions(50, 0)) = 1

-----------------------------------------------------------------------------
(* C23 *)
LostUpdate ==
    \E session_id \in DOMAIN chat_sessions :
        chat_sessions[session_id].message_count < get_message_count(session_id)

(* C23 as stated: the increment of message_count is a read-modify-write    *)
(* that no transaction wraps, so an add_message between its INSERT and its *)
(* commit excludes no other writer: the write lock is free and a second    *)
(* add_message may interleave with it (which is what would let             *)
(* message_count fall below the number of stored messages).                *)
C23_IncrementRunsOutsideATransaction ==
    \A p \in Procs : dbpc[p] # "idle" => write_lock = None

(* C23 amended: the INSERT and the increment of add_message form one       *)
(* transaction under SQLite's write lock, so at most one add_message is    *)
(* between its INSERT and its commit, it alone holds the lock, and         *)
(* message_count is never smaller than the number of stored messages.      *)
C23_ConcurrentAddsAreSerialized ==
    /\ InFlight <= 1
    /\ \A p \in Procs : dbpc[p] # "idle" => write_lock = p
    /\ ~LostUpdate

C23_Witness ==
    /\ dbpc["p1"] = "updated"
    /\ txn["p1"].updates
    /\ txn["p1"].message_count = 2
    /\ lastOp = [name |-> "add_message", id |-> txn["p1"].row.session_id, ok |-> FALSE,
                raised |-> None]
    /\ get_message_count(txn["p1"].row.session_id) = 1

-----------------------------------------------------------------------------
(* C29 *)
(* C29: every stored message's session_id refers to an existing session    *)
(* row; no message is stored for a session that was never created or has   *)
(* been deleted.                                                           *)
C29_EveryMessageBelongsToASession ==
    \A i \in 1..Len(db_messages) : db_messages[i].session_id \in DOMAIN chat_sessions

-----------------------------------------------------------------------------
(* C24 *)
SearchEndpoint == op = "chat_with_search"

(* C24: /api/chat/search is the two-pass flow of /api/chat: a judgement    *)
(* call precedes any search, a search is issued only after a judgement     *)
(* response that begins with the sentinel, and a successful search is      *)
(* followed by a second model call that gives the final answer.            *)
C24_SearchEndpointIsTwoPass ==
    SearchEndpoint =>
        /\ searches # <<>> => JudgementAskedForSearch
        /\ (cpc = "done" /\ httpResponse.status = 200 /\ searches # <<>>
                /\ searches[1].success) => Len(modelCalls) = 2

-----------------------------------------------------------------------------
(* C30 *)
(* The text of message i of a request: SiliconFlow content is a string,    *)
(* Groq user content is a list of parts.                                   *)
RequestText(request, i) ==
    LET m == request.messages[i] IN
    IF request.provider = "groq" /\ m.role = "user"
    THEN IF m.content = <<>> THEN <<>> ELSE m.content[1].text
    ELSE m.content

SearchSucceeded == searches # <<>> /\ searches[1].success

(* C30: in every request /api/chat/search sends to a provider, the         *)
(* user-role message contains the caller's message text and, after a       *)
(* successful search, the formatted search block, and the system-role      *)
(* message contains the endpoint's system instructions.                    *)
C30_SearchRequestCarriesMessageAndBlock ==
    SearchEndpoint =>
        \A k \in 1..Len(sent) :
            /\ \E i \in 1..Len(sent[k].messages) :
                /\ sent[k].messages[i].role = "user"
                /\ Contains(RequestText(sent[k], i), req.data["message"])
                /\ SearchSucceeded =>
                        Contains(RequestText(sent[k], i), SearchBlock(search_query))
            /\ \E i \in 1..Len(sent[k].messages) :
                /\ sent[k].messages[i].role = "system"
                /\ Contains(RequestText(sent[k], i), SearchSystemInstructions)

-----------------------------------------------------------------------------
(* C27 *)
InvalidChatBody ==
    \/ req \in {MalformedBody, MissingBody, EmptyDict}
    \/ req["messages"] = <<>>

(* C27: a POST /api/chat whose body is malformed JSON, is missing, or has   *)
(* an empty messages list is answered with status 400 and a                *)
(* {success: false, error} body, with no provider call, search or          *)
(* database write.                                                         *)
C27_InvalidBodyIsAnswered400 ==
    (op = "chat" /\ cpc = "done" /\ InvalidChatBody) =>
        /\ httpResponse.status = 400
        /\ httpResponse.body["success"] = FALSE
        /\ "error" \in DOMAIN httpResponse.body
        /\ modelCalls = <<>>
        /\ searches = <<>>
        /\ stored = <<>>

-----------------------------------------------------------------------------
UploadDone == op \in UploadEndpoints /\ cpc = "done"
NamedFile == req.has_file /\ req.filename # <<>>

(* C25: on /api/upload/audio, /api/upload and /api/upload/video, a file    *)
(* whose extension is not allowed is answered 400 with the format error    *)
(* whatever its size (the extension is checked before the size); a file    *)
(* with an allowed extension is accepted with status 200 and returned as a *)
(* data URI of all its bytes when its size is at most the limit (10MB,     *)
(* 4MB, 50MB), the limit itself included, and is answered 400 with the     *)
(* too-large error when it is one byte or more over the limit.             *)
C25_UploadSizeBoundaryIsInclusive ==
    (UploadDone /\ NamedFile) =>
        LET limit == UploadLimit(op)
            allowed == ExtensionAllowed(req.filename, UploadExtensions(op))
        IN  /\ ~allowed =>
                /\ httpResponse.status = 400
                /\ httpResponse.body.error = FormatError
            /\ (allowed /\ req.file_size <= limit) =>
                /\ httpResponse.status = 200
                /\ httpResponse.body.success
                /\ httpResponse.body.data.decoded_size = req.file_size
            /\ (allowed /\ req.file_size >= limit + 1) =>
                /\ httpResponse.status = 400
                /\ httpResponse.body.error = SizeError(limit)

C25_Witness ==
    /\ UploadDone
    /\ op = "upload_audio"
    /\ NamedFile
    /\ req.file_size = AUDIO_LIMIT
    /\ httpResponse.status = 200
    /\ httpResponse.body.data = DataUrl(<<"audio/", "mp3">>, AUDIO_LIMIT)

-----------------------------------------------------------------------------
RecordingAccepted ==
    op = "upload_recording" /\ cpc = "done" /\ httpResponse.status = 200
TranscribeRequested == Get(req, "transcribe", TRUE)
ClientTranscript == Get(req, "transcript", <<>>)
ServerTranscriptionInvoked == \E i \in 1..Len(calls) : calls[i].fn = "transcribe_audio"
NoTranscriptionKeys ==
    {"transcription", "transcription_error"} \cap DOMAIN httpResponse.body = {}

(* C26 as stated: in an accepted /api/upload/record request with           *)
(* transcription requested and a non-empty client transcript, server-side  *)
(* transcription is not invoked and the returned transcription text equals *)
(* the client's transcript; with transcribe false nothing is transcribed   *)
(* and the response has neither transcription nor transcription_error.     *)
C26_ClientTranscriptReturnedVerbatim ==
    RecordingAccepted =>
        /\ (TranscribeRequested /\ ClientTranscript # <<>>) =>
            /\ ~ServerTranscriptionInvoked
            /\ "transcription" \in DOMAIN httpResponse.body
            /\ httpResponse.body["transcription"].text = ClientTranscript
        /\ ~TranscribeRequested =>
            /\ ~ServerTranscriptionInvoked
            /\ NoTranscriptionKeys

(* C26, amended: as above, except that the returned transcription text is  *)
(* the client's transcript with its leading and trailing whitespace        *)
(* removed (empty for a transcript of whitespace only), labelled with the  *)
(* source browser-speech-api.                                              *)
C26_ClientTranscriptReturnedStripped ==
    RecordingAccepted =>
        /\ (TranscribeRequested /\ ClientTranscript # <<>>) =>
            /\ ~ServerTranscriptionInvoked
            /\ "transcription" \in DOMAIN httpResponse.body
            /\ "transcription_error" \notin DOMAIN httpResponse.body
            /\ httpResponse.body["transcription"].text = Strip(ClientTranscript)
            /\ httpResponse.body["transcription"].source = "browser-speech-api"
        /\ ~TranscribeRequested =>
            /\ ~ServerTranscriptionInvoked
            /\ NoTranscriptionKeys

C26_Witness ==
    /\ RecordingAccepted
    /\ TranscribeRequested
    /\ ClientTranscript = <<" ", "hello", " ">>
    /\ httpResponse.body["transcription"].text = <<"hello">>
    /\ ~ServerTranscriptionInvoked

====
